---- MODULE Spec2Model ----
(***************************************************************************)
(* Smart Rural Triage Station: the system state machine                    *)
(* (src/linux/core/state_machine.py) and the examination controller        *)
(* (src/linux/core/system_manager.py).                                     *)
(*                                                                         *)
(* Optional values (a dictionary key that may be missing, None) are        *)
(* sequences of length 0 or 1: <<>> is "absent", <<v>> is "present with    *)
(* value v"; Get(opt, default) is dict.get(key, default).                  *)
(***************************************************************************)
EXTENDS Integers, Sequences, FiniteSets, TLC

\* ------------------------------------------------------------------ bounds

\* External transition_to / start_examination calls are issued only while the
\* history is shorter than this (the history itself is unbounded in the code).
MaxHistory == 4

\* Seconds by which one Tick advances the wall clock.
TickStep == 5

\* ------------------------------------------------------- state machine data

States ==
    {"INITIALIZING", "IDLE", "CALIBRATING", "EXAMINING", "PROCESSING",
     "SHOWING_RESULTS", "ERROR", "MAINTENANCE", "SHUTDOWN"}

Absent == <<>>

Some(v) == <<v>>

Get(opt, default) == IF opt = Absent THEN default ELSE opt[1]

\* The declared edges, in declaration order (duplicates included).
valid_transitions ==
    << <<"INITIALIZING", "IDLE">>, <<"INITIALIZING", "ERROR">>,
       <<"IDLE", "CALIBRATING">>, <<"IDLE", "EXAMINING">>,
       <<"IDLE", "MAINTENANCE">>, <<"IDLE", "ERROR">>, <<"IDLE", "SHUTDOWN">>,
       <<"CALIBRATING", "IDLE">>, <<"CALIBRATING", "ERROR">>,
       <<"EXAMINING", "PROCESSING">>, <<"EXAMINING", "IDLE">>,
       <<"EXAMINING", "ERROR">>,
       <<"PROCESSING", "SHOWING_RESULTS">>, <<"PROCESSING", "ERROR">>,
       <<"SHOWING_RESULTS", "IDLE">>, <<"SHOWING_RESULTS", "ERROR">>,
       <<"ERROR", "IDLE">>, <<"ERROR", "MAINTENANCE">>, <<"ERROR", "SHUTDOWN">>,
       <<"MAINTENANCE", "IDLE">>, <<"MAINTENANCE", "ERROR">>,
       <<"MAINTENANCE", "SHUTDOWN">>,
       <<"INITIALIZING", "SHUTDOWN">>, <<"IDLE", "SHUTDOWN">>,
       <<"CALIBRATING", "SHUTDOWN">>, <<"EXAMINING", "SHUTDOWN">>,
       <<"PROCESSING", "SHUTDOWN">>, <<"SHOWING_RESULTS", "SHUTDOWN">>,
       <<"ERROR", "SHUTDOWN">>, <<"MAINTENANCE", "SHUTDOWN">> >>

\* Seconds after which SHOWING_RESULTS -> IDLE fires by itself.
ResultsTimeout == 10

\* Mutant: the recovery edge out of ERROR is timed as well.
StateTransition_RecoveryTimed(from_state, to_state) ==
    [from_state |-> from_state,
     to_state   |-> to_state,
     condition  |->
        IF from_state = "IDLE" /\ to_state = "EXAMINING"
            THEN "_can_start_examination"
        ELSE IF from_state = "PROCESSING" /\ to_state = "SHOWING_RESULTS"
            THEN "_processing_complete"
        ELSE IF from_state = "ERROR" /\ to_state = "IDLE"
            THEN "_error_resolved"
        ELSE "None",
     action     |->
        IF from_state = "IDLE" /\ to_state = "EXAMINING"
            THEN "_on_examination_start"
        ELSE IF from_state = "PROCESSING" /\ to_state = "SHOWING_RESULTS"
            THEN "_on_results_ready"
        ELSE IF from_state = "SHOWING_RESULTS" /\ to_state = "IDLE"
            THEN "_on_return_to_idle"
        ELSE IF from_state = "ERROR" /\ to_state = "IDLE"
            THEN "_on_error_recovery"
        ELSE "None",
     timeout    |->
        IF to_state = "IDLE" /\ from_state \in {"SHOWING_RESULTS", "ERROR"}
            THEN Some(ResultsTimeout)
        ELSE Absent]

\* The StateTransition object built for one declared edge.
StateTransition(from_state, to_state) ==
    [from_state |-> from_state,
     to_state   |-> to_state,
     condition  |->
        IF from_state = "IDLE" /\ to_state = "EXAMINING"
            THEN "_can_start_examination"
        ELSE IF from_state = "PROCESSING" /\ to_state = "SHOWING_RESULTS"
            THEN "_processing_complete"
        ELSE IF from_state = "ERROR" /\ to_state = "IDLE"
            THEN "_error_resolved"
        ELSE "None",
     action     |->
        IF from_state = "IDLE" /\ to_state = "EXAMINING"
            THEN "_on_examination_start"
        ELSE IF from_state = "PROCESSING" /\ to_state = "SHOWING_RESULTS"
            THEN "_on_results_ready"
        ELSE IF from_state = "SHOWING_RESULTS" /\ to_state = "IDLE"
            THEN "_on_return_to_idle"
        ELSE IF from_state = "ERROR" /\ to_state = "IDLE"
            THEN "_on_error_recovery"
        ELSE "None",
     timeout    |->
        IF from_state = "SHOWING_RESULTS" /\ to_state = "IDLE"
            THEN Some(ResultsTimeout)
        ELSE Absent]

\* self.transitions as _setup_transitions leaves it: for every state the
\* edges out of it, in declaration order (none for SHUTDOWN).
_setup_transitions ==
    [from_state \in States |->
        LET out == SelectSeq(valid_transitions, LAMBDA e : e[1] = from_state)
        IN  [i \in 1..Len(out) |-> StateTransition(out[i][1], out[i][2])]]

\* Mutant: an edge leads out of SHUTDOWN.
transitions_ShutdownRestarts(from_state) ==
    IF from_state = "SHUTDOWN"
    THEN <<StateTransition("SHUTDOWN", "IDLE")>>
    ELSE _setup_transitions[from_state]

transitions(from_state) == _setup_transitions[from_state]

_is_valid_transition(from_state, to_state) ==
    \E i \in 1..Len(transitions(from_state)) :
        transitions(from_state)[i].to_state = to_state

\* The first declared edge from_state -> to_state, or Absent.
_find_transition(from_state, to_state) ==
    LET out == transitions(from_state)
        hit == {i \in 1..Len(out) : out[i].to_state = to_state}
    IN  IF hit = {} THEN Absent
        ELSE Some(out[CHOOSE i \in hit : \A j \in hit : i <= j])

\* ---------------------------------------------------------- the data store

\* One sensor_data message: every sub-key may be missing.
EmptySensor ==
    [distance_valid    |-> Absent,
     distance_in_range |-> Absent,
     movement_detected |-> Absent,
     knob_mode         |-> Absent]

Sensor(valid, in_range, detected, mode) ==
    [distance_valid    |-> valid,
     distance_in_range |-> in_range,
     movement_detected |-> detected,
     knob_mode         |-> mode]

\* The sensor messages the ingress delivers in this model.
SensorInputs ==
    { Sensor(Some(TRUE), Some(TRUE), Some(FALSE), Some(1)),
      Sensor(Some(TRUE), Some(FALSE), Some(FALSE), Some(1)),
      Sensor(Some(TRUE), Some(TRUE), Some(TRUE), Some(1)),
      Sensor(Some(TRUE), Some(TRUE), Absent, Some(1)),
      Sensor(Some(FALSE), Some(TRUE), Some(FALSE), Some(1)),
      Sensor(Some(TRUE), Some(TRUE), Some(FALSE), Some(3)),
      EmptySensor }

\* The store right after construction: no key is present.
EmptyData ==
    [latest_sensor_data     |-> Absent,
     processing_complete    |-> Absent,
     error_resolved         |-> Absent,
     error_message          |-> Absent,
     examination_start_time |-> Absent,
     results_display_time   |-> Absent,
     current_examination    |-> Absent,
     examination_results    |-> Absent,
     last_knob_mode         |-> Absent]

DataKeys == DOMAIN EmptyData

set_data(data, key, value) == [data EXCEPT ![key] = Some(value)]

get_data(data, key, default) == Get(data[key], default)

clear_data(data, key) == [data EXCEPT ![key] = Absent]

\* ------------------------------------------------------ guards and actions

\* Mutant: a missing movement reading counts as "no movement".
_can_start_examination_MovementDefaultFalse(data) ==
    LET sensor_data == get_data(data, "latest_sensor_data", EmptySensor)
        mode        == Get(sensor_data.knob_mode, -1)
    IN  IF ~Get(sensor_data.distance_valid, FALSE) THEN FALSE
        ELSE IF Get(sensor_data.movement_detected, FALSE) THEN FALSE
        ELSE IF mode < 0 \/ mode > 2 THEN FALSE
        ELSE TRUE

_can_start_examination(data) ==
    LET sensor_data == get_data(data, "latest_sensor_data", EmptySensor)
        mode        == Get(sensor_data.knob_mode, -1)
    IN  IF ~Get(sensor_data.distance_valid, FALSE) THEN FALSE
        ELSE IF Get(sensor_data.movement_detected, TRUE) THEN FALSE
        ELSE IF mode < 0 \/ mode > 2 THEN FALSE
        ELSE TRUE

\* Mutant: a missing flag counts as set.
_processing_complete_DefaultTrue(data) ==
    get_data(data, "processing_complete", TRUE)

_processing_complete(data) == get_data(data, "processing_complete", FALSE)

\* Mutant: a missing flag counts as set.
_error_resolved_DefaultTrue(data) == get_data(data, "error_resolved", TRUE)

_error_resolved(data) == get_data(data, "error_resolved", FALSE)

\* StateTransition.can_transition: no condition, or the condition holds.
can_transition(transition, data) ==
    CASE transition.condition = "None" -> TRUE
      [] transition.condition = "_can_start_examination" ->
            _can_start_examination(data)
      [] transition.condition = "_processing_complete" ->
            _processing_complete(data)
      [] transition.condition = "_error_resolved" -> _error_resolved(data)

\* Mutant: the start action leaves the old results and flag in the store.
_on_examination_start_KeepsResults(data) ==
    set_data(data, "examination_start_time", "t")

\* The timestamps written into the store are never read by the machine or
\* the controller; they are kept as the marker "t".
_on_examination_start(data) ==
    clear_data(
        clear_data(set_data(data, "examination_start_time", "t"),
                   "processing_complete"),
        "examination_results")

_on_results_ready(data) == set_data(data, "results_display_time", "t")

_on_return_to_idle(data) ==
    clear_data(
        clear_data(clear_data(data, "examination_start_time"),
                   "results_display_time"),
        "processing_complete")

_on_error_recovery(data) ==
    clear_data(clear_data(data, "error_resolved"), "error_message")

\* StateTransition.execute_action: the store after the edge's action.
execute_action(transition, data) ==
    CASE transition.action = "None" -> data
      [] transition.action = "_on_examination_start" ->
            _on_examination_start(data)
      [] transition.action = "_on_results_ready" -> _on_results_ready(data)
      [] transition.action = "_on_return_to_idle" -> _on_return_to_idle(data)
      [] transition.action = "_on_error_recovery" -> _on_error_recovery(data)

\* ------------------------------------------------------ the machine's state

VARIABLES
    current_state,      \* SystemStateMachine.current_state
    previous_state,     \* SystemStateMachine.previous_state ("None" at first)
    state_data,         \* SystemStateMachine.state_data
    state_history,      \* SystemStateMachine.state_history
    time_in_state,      \* time.time() - state_enter_time, in seconds
    hooks_run,          \* callbacks and actions run by the latest transition_to
    ret,                \* the latest API call and what it returned (for
                        \* process(): whether it took a timed edge)
    lock,               \* SystemStateMachine.lock: its owner, or "None"
    calls,              \* per thread, the transition_to call it is inside
    tasks,              \* the simulated-examination tasks created so far
    emitted,            \* commands sent to the MCU by the latest controller step
    decision            \* the latest make_decision call: its arguments and
                        \* what it returned (Absent before the first call)

smvars ==
    <<current_state, previous_state, state_data, state_history, time_in_state,
      hooks_run, ret>>

lockvars == <<lock, calls>>

ctlvars == <<tasks, emitted>>

fusionvars == <<decision>>

vars ==
    <<current_state, previous_state, state_data, state_history, time_in_state,
      hooks_run, ret, lock, calls, tasks, emitted, decision>>

\* The machine as one value, so that calls can be chained inside one step.
Machine ==
    [current_state  |-> current_state,
     previous_state |-> previous_state,
     state_data     |-> state_data,
     state_history  |-> state_history,
     time_in_state  |-> time_in_state]

SetMachine(m) ==
    /\ current_state' = m.current_state
    /\ previous_state' = m.previous_state
    /\ state_data' = m.state_data
    /\ state_history' = m.state_history
    /\ time_in_state' = m.time_in_state

\* SystemStateMachine.__init__
NewMachine ==
    [current_state  |-> "INITIALIZING",
     previous_state |-> "None",
     state_data     |-> EmptyData,
     state_history  |-> <<>>,
     time_in_state  |-> 0]

\* An exit and an entry callback are registered for every state; each one,
\* and each edge action, leaves a record of the state it saw.
Hook(kind, name, seen) == [kind |-> kind, name |-> name, seen |-> seen]

_execute_state_exit_callbacks(m, state) ==
    <<Hook("exit", state, m.current_state)>>

_execute_state_enter_callbacks(m, state) ==
    <<Hook("enter", state, m.current_state)>>

\* Lines 281-304 of transition_to: the mutation once the checks have passed.
\* The record's timestamp and context (always None here) are left out.
ApplyTransition(m, transition, new_state) ==
    LET exits   == _execute_state_exit_callbacks(m, m.current_state)
        swapped == [m EXCEPT
                        !.state_history =
                            Append(m.state_history,
                                   [from_state |-> m.current_state,
                                    to_state   |-> new_state,
                                    forced     |-> FALSE]),
                        !.previous_state = m.current_state,
                        !.current_state = new_state,
                        !.time_in_state = 0]
        acted   == [swapped EXCEPT
                        !.state_data =
                            execute_action(transition, swapped.state_data)]
        act     == IF transition.action = "None" THEN <<>>
                   ELSE <<Hook("action", transition.action,
                               swapped.current_state)>>
    IN  [ok    |-> TRUE,
         m     |-> acted,
         hooks |-> exits \o act
                   \o _execute_state_enter_callbacks(acted, new_state)]

\* Mutant: the edge's condition is not consulted.
TransitionAllowed_IgnoresGuard(m, new_state) ==
    /\ _is_valid_transition(m.current_state, new_state)
    /\ _find_transition(m.current_state, new_state) # Absent

\* Lines 259-279 of transition_to: may the call go ahead?
TransitionAllowed(m, new_state) ==
    /\ _is_valid_transition(m.current_state, new_state)
    /\ _find_transition(m.current_state, new_state) # Absent
    /\ can_transition(_find_transition(m.current_state, new_state)[1],
                      m.state_data)

\* transition_to as one indivisible call (it runs under self.lock).
transition_to(m, new_state) ==
    IF TransitionAllowed(m, new_state)
    THEN ApplyTransition(m,
                         _find_transition(m.current_state, new_state)[1],
                         new_state)
    ELSE [ok |-> FALSE, m |-> m, hooks |-> <<>>]

\* Mutant: the timeout must be exceeded, not merely reached.
process_StrictTimeout(m) ==
    LET out == transitions(m.current_state)
        due == {i \in 1..Len(out) :
                    /\ out[i].timeout # Absent
                    /\ out[i].timeout[1] # 0
                    /\ m.time_in_state > out[i].timeout[1]
                    /\ can_transition(out[i], m.state_data)}
    IN  IF due = {} THEN [ok |-> FALSE, m |-> m, hooks |-> <<>>]
        ELSE [ApplyTransition(
                m, out[CHOOSE i \in due : \A j \in due : i <= j],
                out[CHOOSE i \in due : \A j \in due : i <= j].to_state)
              EXCEPT !.ok = TRUE]

\* process(): the first timed edge whose timeout has elapsed and whose
\* condition holds is taken; at most one per call.
process(m) ==
    LET out == transitions(m.current_state)
        due == {i \in 1..Len(out) :
                    /\ out[i].timeout # Absent
                    /\ out[i].timeout[1] # 0
                    /\ m.time_in_state >= out[i].timeout[1]
                    /\ can_transition(out[i], m.state_data)}
    IN  IF due = {} THEN [ok |-> FALSE, m |-> m, hooks |-> <<>>]
        ELSE transition_to(
                m, out[CHOOSE i \in due : \A j \in due : i <= j].to_state)

NoReturn == [op |-> "none", ok |-> FALSE]

Return(op, ok) == [op |-> op, ok |-> ok]

\* ------------------------------------------- the machine's API, call by call

\* A caller of the public API asks for a transition (as the module's own
\* demonstration does, lines 601-624).
TransitionTo(new_state) ==
    /\ Len(state_history) < MaxHistory
    /\ LET r == transition_to(Machine, new_state)
       IN  /\ SetMachine(r.m)
           /\ hooks_run' = r.hooks
           /\ ret' = Return("transition_to", r.ok)

\* set_data('latest_sensor_data', ...): last write wins, no merge.
SetSensorData(sensor_data) ==
    /\ state_data' = set_data(state_data, "latest_sensor_data", sensor_data)
    /\ UNCHANGED <<current_state, previous_state, state_history,
                   time_in_state, hooks_run, ret>>

\* set_data on one of the two flags that gate a transition.
SetFlag(key, value) ==
    /\ state_data' = set_data(state_data, key, value)
    /\ UNCHANGED <<current_state, previous_state, state_history,
                   time_in_state, hooks_run, ret>>

\* The periodic process() call of the main loop.
Process ==
    /\ LET r == process(Machine)
       IN  /\ SetMachine(r.m)
           /\ hooks_run' = IF r.ok THEN r.hooks ELSE hooks_run
           /\ ret' = Return("process", r.ok)

\* The wall clock advances. Beyond the only timeout of the graph no
\* comparison in the code tells two elapsed times apart, so it stops there.
Tick ==
    /\ time_in_state < ResultsTimeout
    /\ time_in_state' = time_in_state + TickStep
    /\ UNCHANGED <<current_state, previous_state, state_data, state_history,
                   hooks_run, ret>>

FlagKeys == {"processing_complete", "error_resolved"}

\* ------------------------------------- transition_to, thread by thread

Threads == {"thread_1", "thread_2"}

NoCall == [pc |-> "idle", new_state |-> "None", seen |-> "None"]

\* The state after construction: SystemStateMachine.__init__, and no thread
\* inside a call.
Init ==
    /\ current_state = NewMachine.current_state
    /\ previous_state = NewMachine.previous_state
    /\ state_data = NewMachine.state_data
    /\ state_history = NewMachine.state_history
    /\ time_in_state = NewMachine.time_in_state
    /\ hooks_run = <<>>
    /\ ret = NoReturn
    /\ lock = "None"
    /\ calls = [t \in Threads |-> NoCall]
    /\ tasks = <<>>
    /\ emitted = <<>>
    /\ decision = Absent

\* Mutant: the lock excludes nobody.
LockAvailable_NoLock(t) == lock \in {"None"} \cup Threads

\* `with self.lock:` lets a thread in when no other thread holds the lock.
LockAvailable(t) == lock = "None" \/ lock = t

\* Lines 258-279 on thread t: enter the lock, read current_state, look the
\* edge up and evaluate its condition. A refused call returns at once.
TT_Check(t, new_state) ==
    /\ calls[t].pc = "idle"
    /\ Len(state_history) < MaxHistory
    /\ LockAvailable(t)
    /\ IF TransitionAllowed(Machine, new_state)
       THEN /\ lock' = t
            /\ calls' = [calls EXCEPT ![t] =
                            [pc |-> "checked", new_state |-> new_state,
                             seen |-> current_state]]
            /\ UNCHANGED smvars
       ELSE /\ ret' = Return("transition_to", FALSE)
            /\ hooks_run' = <<>>
            /\ UNCHANGED <<current_state, previous_state, state_data,
                           state_history, time_in_state, lockvars>>

\* Lines 281-304 on thread t: callbacks, history record, swap, action, and
\* the lock is left. The edge is the one found at the check; from_state of
\* the record and previous_state are read from current_state now.
TT_Mutate(t) ==
    /\ calls[t].pc = "checked"
    /\ LET r == ApplyTransition(
                    Machine,
                    _find_transition(calls[t].seen, calls[t].new_state)[1],
                    calls[t].new_state)
       IN  /\ SetMachine(r.m)
           /\ hooks_run' = r.hooks
           /\ ret' = Return("transition_to", TRUE)
    /\ lock' = IF lock = t THEN "None" ELSE lock
    /\ calls' = [calls EXCEPT ![t] = NoCall]

\* set_data from another thread (the message ingress): it takes the lock.
LockedSetSensorData(sensor_data) ==
    /\ lock = "None"
    /\ SetSensorData(sensor_data)
    /\ UNCHANGED lockvars

LockedSetFlag(key, value) ==
    /\ lock = "None"
    /\ SetFlag(key, value)
    /\ UNCHANGED lockvars

\* The sensor messages and flag writes that race with the two callers.
ConcSensorInputs == {Sensor(Some(TRUE), Some(TRUE), Some(FALSE), Some(1))}

NextConc ==
    \/ \E t \in Threads, new_state \in States : TT_Check(t, new_state)
    \/ \E t \in Threads : TT_Mutate(t)
    \/ \E sensor_data \in ConcSensorInputs : LockedSetSensorData(sensor_data)
    \/ \E key \in FlagKeys : LockedSetFlag(key, TRUE)

SpecConc == Init /\ [][NextConc /\ UNCHANGED <<ctlvars, fusionvars>>]_vars

\* --------------------------------------------- the API called indivisibly

NextSM ==
    /\ \/ \E new_state \in States : TransitionTo(new_state)
       \/ \E sensor_data \in SensorInputs : SetSensorData(sensor_data)
       \/ \E key \in FlagKeys, value \in BOOLEAN : SetFlag(key, value)
       \/ Process
       \/ Tick
    /\ UNCHANGED lockvars
    /\ UNCHANGED ctlvars
    /\ UNCHANGED fusionvars

SpecSM == Init /\ [][NextSM]_vars

FairSM ==
    /\ WF_vars(Process /\ UNCHANGED <<lockvars, ctlvars, fusionvars>>)
    /\ WF_vars(Tick /\ UNCHANGED <<lockvars, ctlvars, fusionvars>>)

\* The main loop calls process() every 0.1 s for as long as the system runs,
\* and time passes.
SpecSMFair == SpecSM /\ FairSM

\* ------------------------------------------------------------ force_state

\* force_state(new_state, reason): the record is appended and the state
\* replaced under the lock; no edge is looked up, no condition evaluated, no
\* callback or action run, the store untouched.
force_state(m, new_state, reason) ==
    [m EXCEPT
        !.state_history =
            Append(m.state_history,
                   [from_state |-> m.current_state,
                    to_state   |-> new_state,
                    forced     |-> TRUE,
                    reason     |-> reason]),
        !.previous_state = m.current_state,
        !.current_state = new_state,
        !.time_in_state = 0]

\* force_state is called at most this many times.
MaxForced == 2

forced_records(history) ==
    Len(SelectSeq(history, LAMBDA record : record.forced))

\* Mutant: a forced change still has to be an edge of the graph.
ForceState_ChecksGraph(new_state, reason) ==
    /\ Len(state_history) < MaxHistory
    /\ forced_records(state_history) < MaxForced
    /\ SetMachine(IF _is_valid_transition(current_state, new_state)
                  THEN force_state(Machine, new_state, reason)
                  ELSE Machine)
    /\ hooks_run' = <<>>
    /\ ret' = NoReturn

\* A caller forces the state; force_state returns nothing.
ForceState(new_state, reason) ==
    /\ Len(state_history) < MaxHistory
    /\ forced_records(state_history) < MaxForced
    /\ SetMachine(force_state(Machine, new_state, reason))
    /\ hooks_run' = <<>>
    /\ ret' = NoReturn

\* The reasons given: the default of the signature and one other.
Reasons == {"Manual override", "watchdog"}

\* reset: back to INITIALIZING with no previous state, the data store and
\* the history cleared, the clock restarted.
reset(m) ==
    [m EXCEPT
        !.current_state = "INITIALIZING",
        !.previous_state = "None",
        !.state_data = EmptyData,
        !.state_history = <<>>,
        !.time_in_state = 0]

\* A caller resets the machine; reset returns nothing.
Reset ==
    /\ SetMachine(reset(Machine))
    /\ hooks_run' = <<>>
    /\ ret' = NoReturn

NextForce ==
    /\ \/ \E new_state \in States : TransitionTo(new_state)
       \/ \E new_state \in States, reason \in Reasons :
                ForceState(new_state, reason)
       \/ Reset
    /\ UNCHANGED lockvars
    /\ UNCHANGED ctlvars
    /\ UNCHANGED fusionvars

SpecForce == Init /\ [][NextForce]_vars

\* ------------------------------ transition_to, statement by statement
\*
\* Lines 281-300 of transition_to one statement at a time, with a callback
\* registered for the exit and the entry of every state. Each callback and
\* each edge action leaves a record of the machine as it found it; the
\* ones named in raising raise when they are called (the action before it
\* has touched the store). The try/except of execute_action and of the two
\* callback runners catches what they raise.
Observed(kind, name, m, raised) ==
    [kind     |-> kind,
     name     |-> name,
     seen     |-> m.current_state,
     previous |-> m.previous_state,
     records  |-> Len(m.state_history),
     clock    |-> m.time_in_state,
     raised   |-> raised]

\* Mutant: the history record is appended before the exit callbacks run.
TransitionSteps_AppendFirst == <<"append", "exit", "update", "action", "enter">>

\* The statements in the order of the source: the exit callbacks (282),
\* the append to the history (285-290), the update of previous_state,
\* current_state and state_enter_time (293-295), the edge action (298),
\* the entry callbacks (301).
TransitionSteps == <<"exit", "append", "update", "action", "enter">>

RunStep(step, c) ==
    CASE step = "exit" ->
            [c EXCEPT !.hooks =
                @ \o <<Observed("exit", c.m.current_state, c.m,
                                "exit" \in c.raising)>>]
      [] step = "append" ->
            [c EXCEPT !.m.state_history =
                Append(@, [from_state |-> c.m.current_state,
                           to_state   |-> c.new_state,
                           forced     |-> FALSE])]
      [] step = "update" ->
            [c EXCEPT !.m.previous_state = c.m.current_state,
                      !.m.current_state = c.new_state,
                      !.m.time_in_state = 0]
      [] step = "action" ->
            IF c.transition.action = "None" THEN c
            ELSE [c EXCEPT
                    !.hooks =
                        @ \o <<Observed("action", c.transition.action, c.m,
                                        "action" \in c.raising)>>,
                    !.m.state_data =
                        IF "action" \in c.raising THEN @
                        ELSE execute_action(c.transition, @)]
      [] step = "enter" ->
            [c EXCEPT !.hooks =
                @ \o <<Observed("enter", c.new_state, c.m,
                                "enter" \in c.raising)>>]

RECURSIVE RunSteps(_, _)
RunSteps(steps, c) ==
    IF steps = <<>> THEN c
    ELSE RunSteps(Tail(steps), RunStep(Head(steps), c))

\* transition_to with the callbacks and the action observed.
transition_to_observed(m, new_state, raising) ==
    IF TransitionAllowed(m, new_state)
    THEN LET c == RunSteps(TransitionSteps,
                    [m          |-> m,
                     new_state  |-> new_state,
                     transition |-> _find_transition(m.current_state,
                                                     new_state)[1],
                     raising    |-> raising,
                     hooks      |-> <<>>])
         IN  [ok |-> TRUE, m |-> c.m, hooks |-> c.hooks]
    ELSE [ok |-> FALSE, m |-> m, hooks |-> <<>>]

\* One transition_to call; raising is what fails during this call (nothing
\* is called, so nothing can fail, in a call that is refused).
TransitionToObserved(new_state, raising) ==
    /\ Len(state_history) < MaxHistory
    /\ LET r == transition_to_observed(Machine, new_state, raising)
       IN  /\ SetMachine(r.m)
           /\ hooks_run' = r.hooks
           /\ ret' = Return("transition_to", r.ok)

\* One snapshot, which lets an examination start.
HookSensorInputs == {Sensor(Some(TRUE), Some(TRUE), Some(FALSE), Some(1))}

NextHooks ==
    /\ \/ \E new_state \in States :
            \E raising \in IF TransitionAllowed(Machine, new_state)
                            THEN SUBSET {"exit", "action", "enter"}
                            ELSE {{}} :
                TransitionToObserved(new_state, raising)
       \/ \E sensor_data \in HookSensorInputs : SetSensorData(sensor_data)
       \/ \E key \in FlagKeys, value \in BOOLEAN : SetFlag(key, value)
       \/ Tick
    /\ UNCHANGED lockvars
    /\ UNCHANGED ctlvars
    /\ UNCHANGED fusionvars

SpecHooks == Init /\ [][NextHooks]_vars

\* ------------------------------------- the store across examinations
\*
\* The machine with the two keys a processing sequence writes: the
\* processing_complete flag and the examination results.
SetResults(results) ==
    /\ state_data' = set_data(state_data, "examination_results", results)
    /\ UNCHANGED <<current_state, previous_state, state_history,
                   time_in_state, hooks_run, ret>>

StoredResults ==
    {[mode |-> "heart", heart_result |-> Some("mock"),
      lung_result |-> Absent, risk_level |-> "LOW"]}

NextStore ==
    /\ \/ \E new_state \in States : TransitionTo(new_state)
       \/ \E sensor_data \in HookSensorInputs : SetSensorData(sensor_data)
       \/ \E value \in BOOLEAN : SetFlag("processing_complete", value)
       \/ \E results \in StoredResults : SetResults(results)
    /\ UNCHANGED lockvars
    /\ UNCHANGED ctlvars
    /\ UNCHANGED fusionvars

SpecStore == Init /\ [][NextStore]_vars

\* ------------------------------------ a callback that calls the machine
\*
\* self.lock is an RLock, and the callbacks run inside it: an exit callback
\* registered by a client can itself call transition_to(nested) on the
\* machine. That inner call runs as a whole (its own exit callback does not
\* call again); then the outer call goes on from line 285 with the
\* current_state the inner call left, and with the edge it found before.
\* nested = "None" is a callback that calls nothing.
transition_to_reentrant(m, new_state, nested) ==
    IF TransitionAllowed(m, new_state)
    THEN LET inner == IF nested = "None" THEN m
                      ELSE transition_to(m, nested).m
             c == RunSteps(Tail(TransitionSteps),
                    [m          |-> inner,
                     new_state  |-> new_state,
                     transition |-> _find_transition(m.current_state,
                                                     new_state)[1],
                     raising    |-> {},
                     hooks      |-> <<Observed("exit", m.current_state,
                                               m, FALSE)>>])
         IN  [ok |-> TRUE, m |-> c.m, hooks |-> c.hooks]
    ELSE [ok |-> FALSE, m |-> m, hooks |-> <<>>]

\* One transition_to call whose exit callback calls transition_to(nested).
TransitionToReentrant(new_state, nested) ==
    /\ Len(state_history) + (IF nested = "None" THEN 1 ELSE 2) <= MaxHistory
    /\ LET r == transition_to_reentrant(Machine, new_state, nested)
       IN  /\ SetMachine(r.m)
           /\ hooks_run' = r.hooks
           /\ ret' = Return("transition_to", r.ok)

\* A machine that is never reset: transition_to, with or without a
\* callback that calls back, and force_state.
NextReentrant ==
    /\ \/ \E new_state \in States, nested \in States \cup {"None"} :
                TransitionToReentrant(new_state, nested)
       \/ \E new_state \in States, reason \in Reasons :
                ForceState(new_state, reason)
    /\ UNCHANGED lockvars
    /\ UNCHANGED ctlvars
    /\ UNCHANGED fusionvars

SpecReentrant == Init /\ [][NextReentrant]_vars

\* ------------------------------------------- the examination controller
\* SystemManager in simulation mode (audio_enabled = False, audio_capture =
\* None), its API coroutines awaited on the loop that runs its tasks: the
\* coroutines change hands only where they sleep, and every step below runs
\* from one sleep to the next.

\* steps of _run_simulated_examination
Steps == 20

Modes == {"heart", "lung", "both"}

\* What make_decision can return as risk_level.
RiskLevels == {"LOW", "MEDIUM", "HIGH", "UNKNOWN"}

\* A control_command message: the actuator settings it carries (-1 and "-"
\* where it carries none).
Cmd(cmd, servo, frequency, duration, led, relay) ==
    [cmd |-> cmd, servo |-> servo, frequency |-> frequency,
     duration |-> duration, led |-> led, relay |-> relay]

start_command == Cmd("start", 0, 1000, 200, "ON", "-")

stop_command == Cmd("stop", 90, 500, 300, "OFF", "-")

reset_command == Cmd("reset", 90, -1, -1, "OFF", "OFF")

error_command == Cmd("error", -1, 500, 1000, "BLINK", "-")

\* int(progress * 180) with progress = i / steps in binary floating point:
\* 7/20*180 and 14/20*180 fall just below 63 and 126.
servo_angle(i) ==
    IF i \in {7, 14} THEN (i * 180) \div Steps - 1 ELSE (i * 180) \div Steps

progress_command(i) == Cmd("progress", servo_angle(i), -1, -1, "-", "-")

\* _display_results: risk level -> servo angle, buzzer frequency, buzzer
\* duration, number of beeps.
\* Mutant: MEDIUM is displayed with the values of HIGH.
DisplayTuple_MediumAsHigh(risk_level) ==
    IF risk_level = "LOW"
        THEN [servo_angle |-> 45, buzzer_frequency |-> 1000,
              buzzer_duration |-> 200, buzzer_pattern |-> 1]
    ELSE [servo_angle |-> 135, buzzer_frequency |-> 2000,
          buzzer_duration |-> 500, buzzer_pattern |-> 3]

DisplayTuple(risk_level) ==
    IF risk_level = "LOW"
        THEN [servo_angle |-> 45, buzzer_frequency |-> 1000,
              buzzer_duration |-> 200, buzzer_pattern |-> 1]
    ELSE IF risk_level = "MEDIUM"
        THEN [servo_angle |-> 90, buzzer_frequency |-> 1500,
              buzzer_duration |-> 300, buzzer_pattern |-> 2]
    ELSE [servo_angle |-> 135, buzzer_frequency |-> 2000,
          buzzer_duration |-> 500, buzzer_pattern |-> 3]

display_command(risk_level) ==
    Cmd("display", DisplayTuple(risk_level).servo_angle, -1, -1,
        IF risk_level = "LOW" THEN "SOLID" ELSE "BLINK",
        IF risk_level = "HIGH" THEN "ON" ELSE "OFF")

buzzer_command(risk_level) ==
    Cmd("buzzer", -1, DisplayTuple(risk_level).buzzer_frequency,
        DisplayTuple(risk_level).buzzer_duration, "-", "-")

\* Every step of the controller leaves in ret what it returned to an API
\* caller (NoReturn when it is no API call) and in emitted what it sent.
\*
\* One task created by asyncio.create_task(_run_simulated_examination(..)).
\* i and pc are where the coroutine sleeps; risk is the decision it
\* displays. The other fields record what the code computes and drops:
\* failed (it took the error path), shown (what transition_to(
\* SHOWING_RESULTS) returned), end_state (current_state when
\* _return_to_idle finished), stopped (stop_examination left EXAMINING
\* while the task was in its loop), ran_after_stop (the loop passed a
\* state check after that), classified (what the processing sequence did
\* with the classifiers).
NewTask ==
    [i |-> 0, pc |-> "loop", beeps_left |-> 0, risk |-> "None",
     failed |-> FALSE, shown |-> "None", end_state |-> "None",
     stopped |-> FALSE, ran_after_stop |-> FALSE, classified |-> Absent]

\* Successful start_examination calls are issued for this many examinations.
MaxExams == 2

\* start_examination that goes on whatever transition_to returned.
StartExamination_IgnoresRefusal(mode) ==
    /\ Len(tasks) < MaxExams
    /\ IF current_state # "IDLE"
       THEN /\ ret' = Return("start_examination", FALSE)
            /\ emitted' = <<>>
            /\ UNCHANGED <<current_state, previous_state, state_data,
                           state_history, time_in_state, hooks_run, tasks>>
       ELSE LET r == transition_to(Machine, "EXAMINING")
            IN  /\ emitted' = <<start_command>>
                /\ tasks' = Append(tasks, NewTask)
                /\ SetMachine(
                       [r.m EXCEPT !.state_data =
                           set_data(r.m.state_data, "current_examination",
                                    [mode |-> mode])])
                /\ hooks_run' = r.hooks
                /\ ret' = Return("start_examination", TRUE)
    /\ UNCHANGED lockvars

\* start_examination(mode)
StartExamination(mode) ==
    /\ Len(tasks) < MaxExams
    /\ IF current_state # "IDLE"
       THEN /\ ret' = Return("start_examination", FALSE)
            /\ emitted' = <<>>
            /\ UNCHANGED <<current_state, previous_state, state_data,
                           state_history, time_in_state, hooks_run, tasks>>
       ELSE LET r == transition_to(Machine, "EXAMINING")
            IN  IF ~r.ok
                THEN /\ ret' = Return("start_examination", FALSE)
                     /\ emitted' = <<>>
                     /\ hooks_run' = r.hooks
                     /\ UNCHANGED <<current_state, previous_state,
                                    state_data, state_history,
                                    time_in_state, tasks>>
                ELSE /\ emitted' = <<start_command>>
                     /\ tasks' = Append(tasks, NewTask)
                     /\ SetMachine(
                            [r.m EXCEPT !.state_data =
                                set_data(r.m.state_data,
                                         "current_examination",
                                         [mode |-> mode])])
                     /\ hooks_run' = r.hooks
                     /\ ret' = Return("start_examination", TRUE)
    /\ UNCHANGED lockvars

\* stop_examination(): there is no capture object to stop; the stop command
\* is sent, transition_to(IDLE) is called and its result dropped.
StopExamination ==
    /\ LET r == transition_to(Machine, "IDLE")
       IN  /\ SetMachine(r.m)
           /\ hooks_run' = r.hooks
           /\ tasks' =
                [k \in DOMAIN tasks |->
                    IF r.ok /\ current_state = "EXAMINING"
                            /\ tasks[k].pc = "loop"
                    THEN [tasks[k] EXCEPT !.stopped = TRUE]
                    ELSE tasks[k]]
    /\ emitted' = <<stop_command>>
    /\ ret' = Return("stop_examination", TRUE)
    /\ UNCHANGED lockvars

\* _handle_processing_error up to its sleep(3.0).
ErrorPath(m, task, sent) ==
    [m    |-> m,
     task |-> [task EXCEPT !.pc = "error_grace", !.failed = TRUE],
     sent |-> sent \o <<error_command>>]

\* The classifier results of _process_captured_audio: None for a modality
\* the mode does not ask for; otherwise the mock result (simulation) or what
\* the classifier returned.
heart_result_for(mode, audio_enabled) ==
    IF mode \in {"heart", "both"}
    THEN Some(IF audio_enabled THEN "classified" ELSE "mock")
    ELSE Absent

lung_result_for_Unconditional(mode, audio_enabled) ==
    Some(IF audio_enabled THEN "classified" ELSE "mock")

lung_result_for(mode, audio_enabled) ==
    IF mode \in {"lung", "both"}
    THEN Some(IF audio_enabled THEN "classified" ELSE "mock")
    ELSE Absent

\* What one run of the processing sequence did with the classifiers: the
\* mode it read, the two results, and the calls made to classify_heart_sound
\* and classify_lung_sound.
Classification(mode, audio_enabled) ==
    [mode         |-> mode,
     heart_result |-> heart_result_for(mode, audio_enabled),
     lung_result  |-> lung_result_for(mode, audio_enabled),
     heart_calls  |-> IF audio_enabled
                         /\ heart_result_for(mode, audio_enabled) # Absent
                      THEN 1 ELSE 0,
     lung_calls   |-> IF audio_enabled
                         /\ lung_result_for(mode, audio_enabled) # Absent
                      THEN 1 ELSE 0]

\* _process_captured_audio up to the first sleep of _display_results.
\* `raises`: the fusion call raises (triage_engine is None, for instance);
\* `risk_level`: the level of the decision it returns otherwise.
_process_captured_audio(m, task, sent, raises, risk_level, audio_enabled) ==
    LET r    == transition_to(m, "PROCESSING")
        exam == r.m.state_data.current_examination
        c    == Classification(exam[1].mode, audio_enabled)
    IN  IF exam = Absent
        THEN ErrorPath(r.m, task, sent)
        ELSE IF raises
        THEN ErrorPath(r.m, [task EXCEPT !.classified = Some(c)], sent)
        ELSE [m    |-> [r.m EXCEPT !.state_data =
                            set_data(r.m.state_data, "examination_results",
                                     [mode |-> exam[1].mode,
                                      heart_result |-> c.heart_result,
                                      lung_result |-> c.lung_result,
                                      risk_level |-> risk_level])],
              task |-> [task EXCEPT
                            !.pc = "beep",
                            !.risk = risk_level,
                            !.classified = Some(c),
                            !.beeps_left =
                                DisplayTuple(risk_level).buzzer_pattern - 1],
              sent |-> sent \o <<display_command(risk_level),
                                 buzzer_command(risk_level)>>]

\* One iteration of _run_simulated_examination: the state check, the
\* progress callback and, at progress 1.0, the processing sequence.
SimStep(k) ==
    /\ k \in DOMAIN tasks
    /\ tasks[k].pc = "loop"
    /\ IF current_state # "EXAMINING"
       THEN /\ tasks' = [tasks EXCEPT ![k].pc = "done"]
            /\ emitted' = <<>>
            /\ UNCHANGED <<current_state, previous_state, state_data,
                           state_history, time_in_state, hooks_run>>
       ELSE LET t0 == [tasks[k] EXCEPT
                            !.ran_after_stop = tasks[k].stopped]
            IN  IF tasks[k].i < Steps
                THEN /\ tasks' = [tasks EXCEPT
                                    ![k] = [t0 EXCEPT !.i = tasks[k].i + 1]]
                     /\ emitted' = <<progress_command(tasks[k].i)>>
                     /\ UNCHANGED <<current_state, previous_state,
                                    state_data, state_history,
                                    time_in_state, hooks_run>>
                ELSE \E raises \in BOOLEAN, risk_level \in RiskLevels :
                     LET p == _process_captured_audio(
                                Machine, t0,
                                <<progress_command(tasks[k].i)>>,
                                raises, risk_level, FALSE)
                     IN  /\ tasks' = [tasks EXCEPT ![k] = p.task]
                         /\ emitted' = p.sent
                         /\ SetMachine(p.m)
                         /\ hooks_run' =
                                transition_to(Machine, "PROCESSING").hooks
    /\ ret' = NoReturn
    /\ UNCHANGED lockvars

\* _display_results after a 0.4 s pause: the next beep, or, after the last
\* one, transition_to(SHOWING_RESULTS) and the result-display sleep.
Beep(k) ==
    /\ k \in DOMAIN tasks
    /\ tasks[k].pc = "beep"
    /\ IF tasks[k].beeps_left > 0
       THEN /\ tasks' = [tasks EXCEPT
                            ![k].beeps_left = tasks[k].beeps_left - 1]
            /\ emitted' = <<buzzer_command(tasks[k].risk)>>
            /\ UNCHANGED <<current_state, previous_state, state_data,
                           state_history, time_in_state, hooks_run>>
       ELSE LET r == transition_to(Machine, "SHOWING_RESULTS")
            IN  /\ SetMachine(r.m)
                /\ hooks_run' = r.hooks
                /\ tasks' = [tasks EXCEPT
                                ![k].pc = "display_wait",
                                ![k].shown =
                                    IF r.ok THEN "accepted" ELSE "refused"]
                /\ emitted' = <<>>
    /\ ret' = NoReturn
    /\ UNCHANGED lockvars

\* _return_to_idle, after the result-display time or the error grace
\* period: reset command, the examination keys are cleared, and
\* transition_to(IDLE) is called and its result dropped.
ReturnToIdle(k) ==
    /\ k \in DOMAIN tasks
    /\ tasks[k].pc \in {"display_wait", "error_grace"}
    /\ LET cleared == [Machine EXCEPT !.state_data =
                            clear_data(
                                clear_data(state_data, "current_examination"),
                                "examination_results")]
           r == transition_to(cleared, "IDLE")
       IN  /\ SetMachine(r.m)
           /\ hooks_run' = r.hooks
           /\ tasks' = [tasks EXCEPT
                            ![k].pc = "done",
                            ![k].end_state = r.m.current_state]
    /\ emitted' = <<reset_command>>
    /\ ret' = NoReturn
    /\ UNCHANGED lockvars

\* _handle_sensor_data: the snapshot replaces latest_sensor_data; in IDLE a
\* changed knob mode is remembered in last_knob_mode (None when the message
\* has no knob.mode). No event handler is registered in the repository.
HandleSensorData(sensor_data) ==
    /\ LET stored == set_data(state_data, "latest_sensor_data", sensor_data)
       IN  state_data' =
                IF current_state = "IDLE"
                   /\ Some(sensor_data.knob_mode)
                        # Get(Some(stored.last_knob_mode), Some(Some(-1)))
                THEN set_data(stored, "last_knob_mode",
                              sensor_data.knob_mode)
                ELSE stored
    /\ ret' = NoReturn
    /\ emitted' = <<>>
    /\ UNCHANGED <<current_state, previous_state, state_history,
                   time_in_state, hooks_run, lockvars, tasks>>

\* The sensor messages delivered to the controller in this model.
CtlSensorInputs ==
    { Sensor(Some(TRUE), Some(TRUE), Some(FALSE), Some(1)),
      Sensor(Some(TRUE), Some(FALSE), Some(TRUE), Some(1)) }

\* _main_loop: process() between the controller's steps. The controller
\* reads no clock (its sleeps are the steps above), and process() reads
\* time_in_state only on a timed edge, so elapsed time is advanced by Tick
\* in SpecSM and left alone here.
MainLoopProcess ==
    /\ Process
    /\ emitted' = <<>>
    /\ UNCHANGED <<lockvars, tasks>>

\* initialize(), called once before anything else: it sets up the
\* components and starts the background threads, and returns whether all
\* of that worked. No statement in it touches the state machine.
Initialize(ok) ==
    /\ ret = NoReturn
    /\ tasks = <<>>
    /\ state_history = <<>>
    /\ state_data = EmptyData
    /\ ret' = Return("initialize", ok)
    /\ emitted' = <<>>
    /\ UNCHANGED <<current_state, previous_state, state_data, state_history,
                   time_in_state, hooks_run, tasks>>
    /\ UNCHANGED lockvars

Next ==
    \/ \E ok \in BOOLEAN : Initialize(ok)
    \/ \E mode \in Modes : StartExamination(mode)
    \/ StopExamination
    \/ \E k \in 1..MaxExams : SimStep(k)
    \/ \E k \in 1..MaxExams : Beep(k)
    \/ \E k \in 1..MaxExams : ReturnToIdle(k)
    \/ \E sensor_data \in CtlSensorInputs : HandleSensorData(sensor_data)
    \/ MainLoopProcess

Spec == Init /\ [][Next /\ UNCHANGED fusionvars]_vars

\* ------------------------------------------ the controller with real audio
\* SystemManager with audio_enabled = True and an AudioCapture object.
\* start_capture is given _audio_capture_callback as its completion
\* callback and no progress callback. The audio chunks arrive on the
\* stream's own thread, where asyncio.create_task has no running loop: the
\* RuntimeError is caught in _audio_data_callback and in the monitoring
\* loop, so neither reaches stop_capture, and the completion callback runs
\* only where stop_capture is awaited on the controller's loop.

\* Audio chunks that fill target_samples.
CaptureChunks == 2

\* A capture in progress: tasks[k].i counts the chunks stored so far.
NewCapture == [NewTask EXCEPT !.pc = "capturing"]

\* The examination whose start_capture returned False: nothing runs for it.
NoCapture == [NewTask EXCEPT !.pc = "not_started"]

capturing == \E k \in DOMAIN tasks : tasks[k].pc = "capturing"

\* start_examination(mode) with real audio: start_capture is refused while a
\* capture is in progress, and fails when start_recording does (`recording`
\* is what start_recording returned); either way its result is dropped.
StartExaminationAudio(mode) ==
    /\ Len(tasks) < MaxExams
    /\ IF current_state # "IDLE"
       THEN /\ ret' = Return("start_examination", FALSE)
            /\ emitted' = <<>>
            /\ UNCHANGED <<current_state, previous_state, state_data,
                           state_history, time_in_state, hooks_run, tasks>>
       ELSE LET r == transition_to(Machine, "EXAMINING")
            IN  IF ~r.ok
                THEN /\ ret' = Return("start_examination", FALSE)
                     /\ emitted' = <<>>
                     /\ hooks_run' = r.hooks
                     /\ UNCHANGED <<current_state, previous_state,
                                    state_data, state_history,
                                    time_in_state, tasks>>
                ELSE /\ emitted' = <<start_command>>
                     /\ \E recording \in BOOLEAN :
                            tasks' = Append(tasks,
                                        IF capturing \/ ~recording
                                        THEN NoCapture ELSE NewCapture)
                     /\ SetMachine(
                            [r.m EXCEPT !.state_data =
                                set_data(r.m.state_data,
                                         "current_examination",
                                         [mode |-> mode])])
                     /\ hooks_run' = r.hooks
                     /\ ret' = Return("start_examination", TRUE)
    /\ UNCHANGED lockvars

\* _audio_data_callback on the stream's thread: the chunk is stored and the
\* progress computed; at progress 1.0 create_task raises and is caught.
AudioData(k) ==
    /\ k \in DOMAIN tasks
    /\ tasks[k].pc = "capturing"
    /\ tasks[k].i < CaptureChunks
    /\ tasks' = [tasks EXCEPT ![k].i = tasks[k].i + 1]
    /\ UNCHANGED <<smvars, lockvars, emitted>>

\* stop_examination() with real audio, up to its first sleep. With a
\* capture in progress stop_capture awaits the completion callback with
\* progress 1.0: the progress command, then the processing sequence, and
\* the rest of stop_examination waits for it (pc "beep" or "error_grace",
\* then "stop_tail"). Without one it is the stop command and
\* transition_to(IDLE) at once.
StopExaminationAudio ==
    /\ IF capturing
       THEN LET k == CHOOSE j \in DOMAIN tasks : tasks[j].pc = "capturing"
            IN  \E raises \in BOOLEAN, risk_level \in RiskLevels :
                LET p == _process_captured_audio(
                            Machine, tasks[k],
                            <<progress_command(Steps)>>, raises, risk_level,
                            TRUE)
                IN  /\ tasks' = [tasks EXCEPT ![k] = p.task]
                    /\ emitted' = p.sent
                    /\ SetMachine(p.m)
                    /\ hooks_run' =
                            transition_to(Machine, "PROCESSING").hooks
                    /\ ret' = NoReturn
       ELSE LET r == transition_to(Machine, "IDLE")
            IN  /\ SetMachine(r.m)
                /\ hooks_run' = r.hooks
                /\ emitted' = <<stop_command>>
                /\ ret' = Return("stop_examination", TRUE)
                /\ UNCHANGED tasks
    /\ UNCHANGED lockvars

\* _return_to_idle inside the completion callback that stop_examination
\* awaits: as ReturnToIdle, and stop_examination goes on afterwards.
ReturnToIdleAudio(k) ==
    /\ k \in DOMAIN tasks
    /\ tasks[k].pc \in {"display_wait", "error_grace"}
    /\ LET cleared == [Machine EXCEPT !.state_data =
                            clear_data(
                                clear_data(state_data, "current_examination"),
                                "examination_results")]
           r == transition_to(cleared, "IDLE")
       IN  /\ SetMachine(r.m)
           /\ hooks_run' = r.hooks
           /\ tasks' = [tasks EXCEPT
                            ![k].pc = "stop_tail",
                            ![k].end_state = r.m.current_state]
    /\ emitted' = <<reset_command>>
    /\ ret' = NoReturn
    /\ UNCHANGED lockvars

\* The rest of stop_examination once stop_capture has returned: the stop
\* command, transition_to(IDLE) with its result dropped, success.
StopTail(k) ==
    /\ k \in DOMAIN tasks
    /\ tasks[k].pc = "stop_tail"
    /\ LET r == transition_to(Machine, "IDLE")
       IN  /\ SetMachine(r.m)
           /\ hooks_run' = r.hooks
    /\ tasks' = [tasks EXCEPT ![k].pc = "done"]
    /\ emitted' = <<stop_command>>
    /\ ret' = Return("stop_examination", TRUE)
    /\ UNCHANGED lockvars

NextAudio ==
    \/ \E mode \in Modes : StartExaminationAudio(mode)
    \/ StopExaminationAudio
    \/ \E k \in 1..MaxExams : AudioData(k)
    \/ \E k \in 1..MaxExams : Beep(k)
    \/ \E k \in 1..MaxExams : ReturnToIdleAudio(k)
    \/ \E k \in 1..MaxExams : StopTail(k)
    \/ \E sensor_data \in CtlSensorInputs : HandleSensorData(sensor_data)
    \/ MainLoopProcess

SpecAudio == Init /\ [][NextAudio /\ UNCHANGED fusionvars]_vars

\* ------------------------------------- stop_examination, thread by thread
\* The web handlers run stop_examination on the thread of each request
\* (asyncio.run in api_stop_examination and handle_stop_examination), so a
\* second call can run between the statements of the first. stop_capture
\* clears `capturing` first and awaits the completion callback afterwards;
\* the state machine is read again only by transition_to(PROCESSING) inside
\* that callback.

\* stop_capture up to the completion callback: `capturing` is cleared and
\* the recording stopped.
StopCaptureEnter ==
    /\ capturing
    /\ LET k == CHOOSE j \in DOMAIN tasks : tasks[j].pc = "capturing"
       IN  tasks' = [tasks EXCEPT ![k].pc = "stopping"]
    /\ emitted' = <<>>
    /\ ret' = NoReturn
    /\ UNCHANGED <<current_state, previous_state, state_data, state_history,
                   time_in_state, hooks_run, lockvars>>

\* The completion callback awaited by stop_capture, with progress 1.0: the
\* progress command, then the processing sequence up to its first sleep.
CompletionCallback(k) ==
    /\ k \in DOMAIN tasks
    /\ tasks[k].pc = "stopping"
    /\ \E raises \in BOOLEAN, risk_level \in RiskLevels :
        LET p == _process_captured_audio(
                    Machine, tasks[k], <<progress_command(Steps)>>,
                    raises, risk_level, TRUE)
        IN  /\ tasks' = [tasks EXCEPT ![k] = p.task]
            /\ emitted' = p.sent
            /\ SetMachine(p.m)
            /\ hooks_run' = transition_to(Machine, "PROCESSING").hooks
    /\ ret' = NoReturn
    /\ UNCHANGED lockvars

\* stop_examination() on a thread that finds no capture in progress:
\* stop_capture returns None at once.
StopWithoutCapture ==
    /\ ~capturing
    /\ StopExaminationAudio

NextStopRace ==
    \/ \E mode \in Modes : StartExaminationAudio(mode)
    \/ StopCaptureEnter
    \/ \E k \in 1..MaxExams : CompletionCallback(k)
    \/ StopWithoutCapture
    \/ \E k \in 1..MaxExams : Beep(k)
    \/ \E k \in 1..MaxExams : ReturnToIdleAudio(k)
    \/ \E k \in 1..MaxExams : StopTail(k)
    \/ \E sensor_data \in CtlSensorInputs : HandleSensorData(sensor_data)

SpecStopRace == Init /\ [][NextStopRace /\ UNCHANGED fusionvars]_vars

\* ------------------------------------------------- the triage decision engine
\* TriageDecisionEngine with its default thresholds and fusion weights.
\* Confidences are in hundredths, temperatures in tenths of a degree
\* Celsius, component scores in thousandths, weights in tenths; the overall
\* score is kept as the fraction num / den (in thousandths) that the code
\* computes in floating point.

\* Mutant: a normal classification needs full confidence.
thresholds_FullConfidence == [ml_confidence |-> 100, temperature_fever |-> 380]

thresholds == [ml_confidence |-> 70, temperature_fever |-> 380]

fusion_weights == [ml_prediction |-> 5, audio_analysis |-> 3, vital_signs |-> 2]

\* A classifier result dict.
Result(success, predicted_class, confidence) ==
    [success |-> success, predicted_class |-> predicted_class,
     confidence |-> confidence]

\* A sensor_data dict as the fusion reads it.
Vitals(valid, celsius, detected, in_range) ==
    [temperature |-> [valid |-> valid, celsius |-> celsius],
     movement    |-> [detected |-> detected],
     distance    |-> [in_range |-> in_range]]

Analysis(score, factors, recommendations) ==
    [score |-> score, factors |-> factors, recommendations |-> recommendations]

\* The factor strings, without the numbers formatted into them.
LowConfidence == "Low confidence in normal classification"

_analyze_heart_prediction(heart_result) ==
    IF heart_result.predicted_class # "Normal"
    THEN Analysis(8 * heart_result.confidence,
                  <<"Abnormal heart sound detected">>,
                  <<"Cardiac evaluation by physician recommended",
                    "Consider ECG and echocardiography",
                    "Monitor for symptoms: chest pain, palpitations, shortness of breath">>)
    ELSE IF heart_result.confidence < thresholds.ml_confidence
    THEN Analysis(300, <<LowConfidence>>, <<>>)
    ELSE Analysis(100, <<>>, <<>>)

_analyze_lung_prediction(lung_result) ==
    LET predicted_class == lung_result.predicted_class
        factor == <<"Abnormal lung sound detected: " \o predicted_class>>
    IN  IF predicted_class = "Wheeze"
        THEN Analysis(7 * lung_result.confidence, factor,
                      <<"Possible asthma or bronchospasm",
                        "Consider bronchodilator therapy",
                        "Pulmonary function testing if persistent">>)
        ELSE IF predicted_class = "Crackle"
        THEN Analysis(7 * lung_result.confidence, factor,
                      <<"Possible pneumonia or pulmonary edema",
                        "Chest X-ray recommended",
                        "Monitor for fever and respiratory distress">>)
        ELSE IF predicted_class = "Both"
        THEN Analysis(9 * lung_result.confidence, factor,
                      <<"Multiple abnormalities detected",
                        "Urgent pulmonary evaluation recommended">>)
        ELSE IF predicted_class # "Normal"
        THEN Analysis(7 * lung_result.confidence, factor, <<>>)
        ELSE IF lung_result.confidence < thresholds.ml_confidence
        THEN Analysis(300, <<LowConfidence>>, <<>>)
        ELSE Analysis(100, <<>>, <<>>)

\* Mutant: movement adds 0.1 to the vital-sign score.
_analyze_vital_signs_MovementScored(sensor_data) ==
    LET temp == sensor_data.temperature
        t == IF ~temp.valid THEN Analysis(0, <<>>, <<>>)
             ELSE IF temp.celsius >= thresholds.temperature_fever
             THEN Analysis(300, <<"Fever detected">>,
                           <<"Fever management and infection workup">>)
             ELSE IF temp.celsius < 350
             THEN Analysis(200, <<"Hypothermia detected">>,
                           <<"Warming measures and evaluation">>)
             ELSE Analysis(0, <<>>, <<>>)
        m == IF sensor_data.movement.detected
             THEN Analysis(0, <<"Patient movement detected during examination">>,
                           <<"Repeat examination when patient is stable">>)
             ELSE Analysis(0, <<>>, <<>>)
        d == IF ~sensor_data.distance.in_range
             THEN Analysis(0, <<"Suboptimal stethoscope placement">>,
                           <<"Ensure proper contact for accurate assessment">>)
             ELSE Analysis(0, <<>>, <<>>)
    IN  Analysis(t.score + (IF sensor_data.movement.detected THEN 100 ELSE 0),
                 t.factors \o m.factors \o d.factors,
                 t.recommendations \o m.recommendations \o d.recommendations)

_analyze_vital_signs(sensor_data) ==
    LET temp == sensor_data.temperature
        t == IF ~temp.valid THEN Analysis(0, <<>>, <<>>)
             ELSE IF temp.celsius >= thresholds.temperature_fever
             THEN Analysis(300, <<"Fever detected">>,
                           <<"Fever management and infection workup">>)
             ELSE IF temp.celsius < 350
             THEN Analysis(200, <<"Hypothermia detected">>,
                           <<"Warming measures and evaluation">>)
             ELSE Analysis(0, <<>>, <<>>)
        m == IF sensor_data.movement.detected
             THEN Analysis(0, <<"Patient movement detected during examination">>,
                           <<"Repeat examination when patient is stable">>)
             ELSE Analysis(0, <<>>, <<>>)
        d == IF ~sensor_data.distance.in_range
             THEN Analysis(0, <<"Suboptimal stethoscope placement">>,
                           <<"Ensure proper contact for accurate assessment">>)
             ELSE Analysis(0, <<>>, <<>>)
    IN  Analysis(t.score,
                 t.factors \o m.factors \o d.factors,
                 t.recommendations \o m.recommendations \o d.recommendations)

\* The weight _calculate_overall_risk gives a component: 'ml' is in
\* heart_ml and lung_ml, 'vital' in vital_signs.
component_weight(component) ==
    IF component \in {"heart_ml", "lung_ml"} THEN fusion_weights.ml_prediction
    ELSE IF component = "vital_signs" THEN fusion_weights.vital_signs
    ELSE fusion_weights.audio_analysis

Components == <<"heart_ml", "lung_ml", "vital_signs">>

\* Mutant: the weighted sum is divided by the sum of all three weights.
_calculate_overall_risk_AllWeights(risk_scores) ==
    LET present == {c \in DOMAIN risk_scores : risk_scores[c] # Absent}
        weighted_sum[S \in SUBSET present] ==
            IF S = {} THEN 0
            ELSE LET c == CHOOSE x \in S : TRUE
                 IN  risk_scores[c][1] * component_weight(c)
                     + weighted_sum[S \ {c}]
    IN  [num |-> weighted_sum[present],
         den |-> 2 * fusion_weights.ml_prediction + fusion_weights.vital_signs]

\* _calculate_overall_risk: weighted_sum / total_weight over the components
\* present, 0.0 when there is none.
_calculate_overall_risk(risk_scores) ==
    LET present == {c \in DOMAIN risk_scores : risk_scores[c] # Absent}
        weighted_sum[S \in SUBSET present] ==
            IF S = {} THEN 0
            ELSE LET c == CHOOSE x \in S : TRUE
                 IN  risk_scores[c][1] * component_weight(c)
                     + weighted_sum[S \ {c}]
        total_weight[S \in SUBSET present] ==
            IF S = {} THEN 0
            ELSE LET c == CHOOSE x \in S : TRUE
                 IN  component_weight(c) + total_weight[S \ {c}]
    IN  IF present = {} THEN [num |-> 0, den |-> 1]
        ELSE [num |-> weighted_sum[present], den |-> total_weight[present]]

\* Mutant: a score of exactly 0.7 is not yet HIGH.
_determine_risk_level_StrictHigh(risk_score) ==
    IF risk_score.num > 700 * risk_score.den THEN "HIGH"
    ELSE IF risk_score.num >= 400 * risk_score.den THEN "MEDIUM"
    ELSE "LOW"

_determine_risk_level(risk_score) ==
    IF risk_score.num >= 700 * risk_score.den THEN "HIGH"
    ELSE IF risk_score.num >= 400 * risk_score.den THEN "MEDIUM"
    ELSE "LOW"

\* Mutant: the keywords are looked for in the factor as it is written.
has_urgent_keyword_CaseSensitive(factor) == FALSE

\* The factor strings whose lower case contains one of 'fever', 'both',
\* 'multiple', 'urgent'.
has_urgent_keyword(factor) ==
    factor \in {"Fever detected", "Abnormal lung sound detected: Both"}

_determine_urgency(risk_level, risk_factors) ==
    IF risk_level = "HIGH" THEN "URGENT"
    ELSE IF risk_level = "MEDIUM"
    THEN IF \E i \in 1..Len(risk_factors) : has_urgent_keyword(risk_factors[i])
         THEN "URGENT" ELSE "ROUTINE"
    ELSE "NON-URGENT"

\* One line of the explanation text: the headline, a heading, a bullet with
\* a risk factor, or a bullet with a component and its score.
Line(part, text, score) == [part |-> part, text |-> text, score |-> score]

\* Mutant: every risk factor is listed.
top_factors_All(risk_factors) == risk_factors

\* risk_factors[:5]
top_factors(risk_factors) ==
    SubSeq(risk_factors, 1,
           IF Len(risk_factors) < 5 THEN Len(risk_factors) ELSE 5)

\* _generate_explanation: the lines that are joined into the text.
_generate_explanation(risk_level, risk_scores, risk_factors) ==
    LET headline ==
            IF risk_level = "HIGH"
            THEN "HIGH RISK: Significant abnormalities detected."
            ELSE IF risk_level = "MEDIUM"
            THEN "MEDIUM RISK: Some abnormalities detected."
            ELSE "LOW RISK: No significant abnormalities detected."
        listed == top_factors(risk_factors)
        findings ==
            IF risk_factors = <<>> THEN <<>>
            ELSE <<Line("heading", "Key findings:", 0)>>
                 \o [i \in 1..Len(listed) |-> Line("factor", listed[i], 0)]
        present == SelectSeq(Components, LAMBDA c : risk_scores[c] # Absent)
        assessment ==
            IF present = <<>> THEN <<>>
            ELSE <<Line("heading", "Risk assessment:", 0)>>
                 \o [i \in 1..Len(present) |->
                        Line("score", present[i], risk_scores[present[i]][1])]
    IN  <<Line("headline", headline, 0)>> \o findings \o assessment

\* _calculate_decision_confidence: 1 - min(std / (mean + 0.1), 1) over the
\* n scores present, 0.0 when there is none. With S the sum of the scores
\* and Q the sum of their squares, std = sqrt(n*Q - S*S) / n and
\* mean + 0.1 = (S + 100*n) / n, so the quotient is sqrt(radicand) / base
\* with radicand = n*Q - S*S and base = S + 100*n. The square root is not
\* an integer: the confidence is kept as this pair, (1, 1) standing for a
\* quotient of 1 or more (confidence 0.0) and for no score at all.
_calculate_decision_confidence(risk_scores) ==
    LET present == SelectSeq(Components, LAMBDA c : risk_scores[c] # Absent)
        scores  == [i \in 1..Len(present) |-> risk_scores[present[i]][1]]
        Sum[i \in 0..Len(scores)] ==
            IF i = 0 THEN 0 ELSE scores[i] + Sum[i - 1]
        Squares[i \in 0..Len(scores)] ==
            IF i = 0 THEN 0 ELSE scores[i] * scores[i] + Squares[i - 1]
        n        == Len(scores)
        radicand == n * Squares[n] - Sum[n] * Sum[n]
        base     == Sum[n] + 100 * n
    IN  IF n = 0 \/ radicand >= base * base
        THEN [radicand |-> 1, base |-> 1]
        ELSE [radicand |-> radicand, base |-> base]

NoAnalysis == Analysis(0, <<>>, <<>>)

\* A confidence or temperature that is no number (a string, None).
Malformed == -1

\* Mutant: a result is analysed whatever its success flag says.
raises_TypeError_IgnoresSuccess(heart_result, lung_result, sensor_data) ==
    \/ /\ heart_result # Absent
       /\ heart_result[1].confidence = Malformed
    \/ /\ lung_result # Absent
       /\ lung_result[1].confidence = Malformed
    \/ /\ sensor_data # Absent
       /\ sensor_data[1].temperature.valid
       /\ sensor_data[1].temperature.celsius = Malformed

\* Where the body of make_decision raises: arithmetic or a comparison on a
\* value that is no number, in the analysis of a result that is used or of
\* a temperature that is valid.
raises_TypeError(heart_result, lung_result, sensor_data) ==
    \/ /\ heart_result # Absent
       /\ heart_result[1].success
       /\ heart_result[1].confidence = Malformed
    \/ /\ lung_result # Absent
       /\ lung_result[1].success
       /\ lung_result[1].confidence = Malformed
    \/ /\ sensor_data # Absent
       /\ sensor_data[1].temperature.valid
       /\ sensor_data[1].temperature.celsius = Malformed

\* Mutant: the fallback decision asks for no referral.
except_Exception_NoReferral ==
    [error |-> TRUE, risk_level |-> "UNKNOWN", requires_referral |-> FALSE]

\* What the except clause of make_decision returns.
except_Exception ==
    [error |-> TRUE, risk_level |-> "UNKNOWN", requires_referral |-> TRUE]

\* make_decision (None is Absent): the body runs inside try, and any
\* exception ends in the except clause.
make_decision(heart_result, lung_result, sensor_data) ==
    IF raises_TypeError(heart_result, lung_result, sensor_data)
    THEN except_Exception
    ELSE
    LET heart == heart_result # Absent /\ heart_result[1].success
        lung  == lung_result # Absent /\ lung_result[1].success
        vital == sensor_data # Absent
        heart_risk == IF heart THEN _analyze_heart_prediction(heart_result[1])
                      ELSE NoAnalysis
        lung_risk  == IF lung THEN _analyze_lung_prediction(lung_result[1])
                      ELSE NoAnalysis
        vital_risk == IF vital THEN _analyze_vital_signs(sensor_data[1])
                      ELSE NoAnalysis
        risk_scores ==
            [heart_ml    |-> IF heart THEN Some(heart_risk.score) ELSE Absent,
             lung_ml     |-> IF lung THEN Some(lung_risk.score) ELSE Absent,
             vital_signs |-> IF vital THEN Some(vital_risk.score) ELSE Absent]
        risk_factors ==
            heart_risk.factors \o lung_risk.factors \o vital_risk.factors
        overall_risk_score == _calculate_overall_risk(risk_scores)
        risk_level == _determine_risk_level(overall_risk_score)
    IN  [risk_level            |-> risk_level,
         risk_score            |-> overall_risk_score,
         risk_scores_breakdown |-> risk_scores,
         risk_factors          |-> risk_factors,
         recommendations       |-> heart_risk.recommendations
                                   \o lung_risk.recommendations
                                   \o vital_risk.recommendations,
         explanation           |-> _generate_explanation(risk_level,
                                        risk_scores, risk_factors),
         requires_referral     |-> risk_level \in {"MEDIUM", "HIGH"},
         urgency               |-> _determine_urgency(risk_level, risk_factors),
         confidence            |->
            _calculate_decision_confidence(risk_scores)]

\* The arguments the decision engine is called with.
Confidences == {10, 50, 80, 90, 95, 100, Malformed}

HeartResults ==
    {Absent} \cup
    {Some(Result(success, predicted_class, confidence)) :
        success \in BOOLEAN, predicted_class \in {"Normal", "Murmur"},
        confidence \in Confidences}

LungResults ==
    {Absent} \cup
    {Some(Result(success, predicted_class, confidence)) :
        success \in BOOLEAN,
        predicted_class \in {"Normal", "Wheeze", "Crackle", "Both"},
        confidence \in Confidences}

VitalInputs ==
    {Absent} \cup
    {Some(Vitals(valid, celsius, detected, in_range)) :
        valid \in BOOLEAN, celsius \in {340, 365, 370, 385, Malformed},
        detected \in BOOLEAN, in_range \in BOOLEAN}

\* One call of make_decision.
MakeDecision(heart_result, lung_result, sensor_data) ==
    /\ decision' = Some([heart_result |-> heart_result,
                         lung_result  |-> lung_result,
                         sensor_data  |-> sensor_data,
                         result       |-> make_decision(heart_result,
                                                        lung_result,
                                                        sensor_data)])
    /\ UNCHANGED <<smvars, lockvars, ctlvars>>

\* The engine keeps nothing from call to call, so one call is followed.
NextTriage ==
    /\ decision = Absent
    /\ \E heart_result \in HeartResults, lung_result \in LungResults,
          sensor_data \in VitalInputs :
            MakeDecision(heart_result, lung_result, sensor_data)

SpecTriage == Init /\ [][NextTriage]_vars

\* _generate_explanation on its own, with more risk factors than one
\* make_decision call collects.
MaxFactors == 8

FactorLists ==
    UNION {[1..n -> {"Fever detected", "Suboptimal stethoscope placement"}] :
            n \in 0..MaxFactors}

RiskScores ==
    {[heart_ml |-> h, lung_ml |-> l, vital_signs |-> v] :
        h \in {Absent, Some(720)}, l \in {Absent, Some(100)},
        v \in {Absent, Some(0)}}

GenerateExplanation(risk_level, risk_scores, risk_factors) ==
    /\ decision' = Some([risk_level   |-> risk_level,
                         risk_scores  |-> risk_scores,
                         risk_factors |-> risk_factors,
                         explanation  |-> _generate_explanation(risk_level,
                                              risk_scores, risk_factors)])
    /\ UNCHANGED <<smvars, lockvars, ctlvars>>

NextExplain ==
    /\ decision = Absent
    /\ \E risk_level \in {"LOW", "MEDIUM", "HIGH"},
          risk_scores \in RiskScores, risk_factors \in FactorLists :
            GenerateExplanation(risk_level, risk_scores, risk_factors)

SpecExplain == Init /\ [][NextExplain]_vars

\* ------------------------------------------------------------------ claims

\* The transition graph as section 4.1 of the specification lists it.
DeclaredGraph ==
    ({"INITIALIZING"} \X {"IDLE", "ERROR", "SHUTDOWN"})
    \cup ({"IDLE"} \X {"CALIBRATING", "EXAMINING", "MAINTENANCE", "ERROR",
                       "SHUTDOWN"})
    \cup ({"CALIBRATING"} \X {"IDLE", "ERROR", "SHUTDOWN"})
    \cup ({"EXAMINING"} \X {"PROCESSING", "IDLE", "ERROR", "SHUTDOWN"})
    \cup ({"PROCESSING"} \X {"SHOWING_RESULTS", "ERROR", "SHUTDOWN"})
    \cup ({"SHOWING_RESULTS"} \X {"IDLE", "ERROR", "SHUTDOWN"})
    \cup ({"ERROR"} \X {"IDLE", "MAINTENANCE", "SHUTDOWN"})
    \cup ({"MAINTENANCE"} \X {"IDLE", "ERROR", "SHUTDOWN"})

\* The guard of an edge, read off the store.
GuardHolds(from_state, to_state, data) ==
    CASE from_state = "IDLE" /\ to_state = "EXAMINING" ->
            _can_start_examination(data)
      [] from_state = "PROCESSING" /\ to_state = "SHOWING_RESULTS" ->
            get_data(data, "processing_complete", FALSE)
      [] from_state = "ERROR" /\ to_state = "IDLE" ->
            get_data(data, "error_resolved", FALSE)
      [] OTHER -> TRUE

\* C1: a transition_to(t) called in state s, where (s, t) is no edge of the
\* declared graph or an edge whose guard is false, returns false, leaves
\* current_state, previous_state, the history, the time-in-state clock and
\* the data store unchanged and runs no exit callback, entry callback or
\* action.
C1_IllegalTransitionRejected ==
    [][\A t \in States :
          (/\ TransitionTo(t)
           /\ \/ <<current_state, t>> \notin DeclaredGraph
              \/ ~GuardHolds(current_state, t, state_data))
          => /\ ret' = Return("transition_to", FALSE)
             /\ UNCHANGED <<current_state, previous_state, state_history,
                            time_in_state, state_data>>
             /\ hooks_run' = <<>>]_smvars

\* C1 witness: a call failed in SHUTDOWN (no edge leaves it), and one failed
\* on a false guard is behind a machine still in PROCESSING without the flag.
C1_Witness ==
    /\ current_state = "SHUTDOWN"
    /\ ret = Return("transition_to", FALSE)
    /\ hooks_run = <<>>
    /\ Len(state_history) >= 2

GoodSensor == Sensor(Some(TRUE), Some(TRUE), Some(FALSE), Some(1))

LatestSensor == get_data(state_data, "latest_sensor_data", EmptySensor)

\* C2: transition_to(EXAMINING) from IDLE fails whenever the latest sensor
\* data report movement (or carry no movement reading), and succeeds when
\* they report no movement, a valid in-range distance and knob mode 1.
C2_MovementGuard ==
    [][(TransitionTo("EXAMINING") /\ current_state = "IDLE")
          => /\ Get(LatestSensor.movement_detected, TRUE)
                    => (~ret'.ok /\ current_state' = "IDLE")
             /\ LatestSensor = GoodSensor
                    => (ret'.ok /\ current_state' = "EXAMINING")]_smvars

\* C2 witness: the examination was entered under the good sensor snapshot.
C2_Witness ==
    /\ current_state = "EXAMINING"
    /\ ret = Return("transition_to", TRUE)
    /\ LatestSensor = GoodSensor
    /\ time_in_state = 0

\* C2 witness of the refusal: a call failed in IDLE while movement is
\* reported with everything else in order.
C2_WitnessRefused ==
    /\ current_state = "IDLE"
    /\ ret = Return("transition_to", FALSE)
    /\ LatestSensor = Sensor(Some(TRUE), Some(TRUE), Some(TRUE), Some(1))

\* C3: transition_to(EXAMINING) from IDLE never succeeds while the latest
\* sensor data have distance.in_range false or missing.
C3_InRangeRequired ==
    [][(TransitionTo("EXAMINING") /\ current_state = "IDLE"
            /\ ~Get(LatestSensor.distance_in_range, FALSE))
          => ~ret'.ok]_smvars

\* C8: once the machine has been in SHOWING_RESULTS for at least 10 seconds,
\* one process() call moves it to IDLE and runs the return-to-idle action;
\* under fair periodic process() calls SHOWING_RESULTS is always left.
C8_AutoTimeout ==
    /\ [][(Process /\ current_state = "SHOWING_RESULTS"
                   /\ time_in_state >= 10)
            => /\ current_state' = "IDLE"
               /\ previous_state' = "SHOWING_RESULTS"
               /\ \E i \in 1..Len(hooks_run') :
                     hooks_run'[i] =
                        Hook("action", "_on_return_to_idle", "IDLE")
               /\ state_data'.processing_complete = Absent
               /\ state_data'.results_display_time = Absent]_smvars
    /\ (current_state = "SHOWING_RESULTS")
            ~> (current_state # "SHOWING_RESULTS")

\* C8 witness: process() itself took the machine from SHOWING_RESULTS to IDLE.
C8_Witness ==
    /\ current_state = "IDLE"
    /\ previous_state = "SHOWING_RESULTS"
    /\ ret = Return("process", TRUE)

HistoryLegal ==
    \A i \in 1..Len(state_history) :
        /\ <<state_history[i].from_state, state_history[i].to_state>>
                \in DeclaredGraph
        /\ i > 1 => state_history[i].from_state
                        = state_history[i - 1].to_state

\* C9: transitions are linearizable. Two threads are never both between the
\* guard check and the state swap; every accepted call records as from_state
\* the state that was current at its check and still is at its swap, over a
\* declared edge; so two calls checked in the same state are never both
\* accepted as transitions out of it.
C9_Linearizable ==
    /\ [](Cardinality({t \in Threads : calls[t].pc = "checked"}) <= 1)
    /\ [](HistoryLegal)
    /\ [][\A t \in Threads :
            TT_Mutate(t)
            => /\ current_state = calls[t].seen
               /\ state_history'[Len(state_history')] =
                    [from_state |-> calls[t].seen,
                     to_state   |-> calls[t].new_state,
                     forced     |-> FALSE]]_vars

\* C9 witness: one thread is past its check out of IDLE, holding the lock,
\* while the other thread has no call in progress.
C9_Witness ==
    /\ calls["thread_1"].pc = "checked"
    /\ calls["thread_1"].seen = "IDLE"
    /\ calls["thread_1"].new_state = "CALIBRATING"
    /\ calls["thread_2"].pc = "idle"
    /\ lock = "thread_1"

\* C4: every examination whose capture completes and whose decision is
\* returned has its PROCESSING -> SHOWING_RESULTS transition accepted, and
\* the device is back in IDLE when the examination's task ends.
C4_CompletedExaminationShown ==
    \A k \in DOMAIN tasks :
        /\ (tasks[k].risk # "None" /\ tasks[k].pc \in {"display_wait", "done"})
                => tasks[k].shown = "accepted"
        /\ (tasks[k].risk # "None" /\ tasks[k].pc = "done")
                => tasks[k].end_state = "IDLE"

\* C5: an examination whose processing sequence raised has the machine in
\* IDLE once the error command is sent and the grace period is over.
C5_FailureReturnsToIdle ==
    \A k \in DOMAIN tasks :
        (tasks[k].failed /\ tasks[k].pc = "done")
            => tasks[k].end_state = "IDLE"

\* C6: whenever stop_examination() has just returned success, the machine's
\* current state is IDLE.
C6_StopLeavesIdle ==
    (ret = Return("stop_examination", TRUE)) => current_state = "IDLE"

\* C7: start_examination(mode) returns success exactly when the state was
\* IDLE and the IDLE -> EXAMINING guard held at the call; when it returns
\* failure, current_state, the data store and the set of running captures
\* are unchanged and no command is emitted.
C7_StartRejectedWithoutEffect ==
    [][\A mode \in Modes :
        StartExamination(mode) =>
            /\ ret' = Return("start_examination",
                             current_state = "IDLE"
                             /\ _can_start_examination(state_data))
            /\ (~ret'.ok =>
                    /\ UNCHANGED <<current_state, state_data, tasks>>
                    /\ emitted' = <<>>)]_vars

\* C7 witness (scenario D): start_examination has just been refused while
\* the machine is EXAMINING and the one simulated capture is in its loop.
C7_Witness ==
    /\ ret = Return("start_examination", FALSE)
    /\ current_state = "EXAMINING"
    /\ Len(tasks) = 1
    /\ tasks[1].pc = "loop"
    /\ tasks[1].i > 0

\* C10: a simulated progress loop that stop_examination() took out of
\* EXAMINING passes no later state check, so it emits no further progress
\* command and never starts the processing sequence.
C10_StoppedLoopCancelled ==
    \A k \in DOMAIN tasks : ~tasks[k].ran_after_stop

\* C11: the processing sequence of an examination starts only once its
\* capture has reached progress 1.0 (every chunk of the capture stored);
\* no other event, stop_examination included, starts it.
C11_ProcessingOnlyAfterCapture ==
    \A k \in DOMAIN tasks :
        (tasks[k].risk # "None" \/ tasks[k].failed)
            => tasks[k].i = CaptureChunks

C13_IdleStoreCleared ==
    (current_state = "IDLE"
     /\ previous_state \in {"EXAMINING", "PROCESSING", "SHOWING_RESULTS"})
        => /\ state_data.current_examination = Absent
           /\ state_data.examination_results = Absent

\* C14: stop_examination() called while no examination is active (the state
\* is not EXAMINING, PROCESSING or SHOWING_RESULTS) returns success, leaves
\* current_state, the history and the store unchanged and emits only its
\* reset command.
C14_IdleStopIsNoOp ==
    [][(StopExamination
        /\ current_state \notin {"EXAMINING", "PROCESSING", "SHOWING_RESULTS"})
        => /\ ret' = Return("stop_examination", TRUE)
           /\ UNCHANGED <<current_state, state_history, state_data>>
           /\ emitted' = <<stop_command>>]_vars

\* C15: transition_to(SHOWING_RESULTS) called in PROCESSING succeeds, and
\* moves the machine there, exactly when the store holds
\* processing_complete = true at the call.
C15_ProcessingCompleteGuard ==
    [][(TransitionTo("SHOWING_RESULTS") /\ current_state = "PROCESSING")
          => /\ ret'.ok <=> (state_data.processing_complete = Some(TRUE))
             /\ current_state' =
                    IF ret'.ok THEN "SHOWING_RESULTS" ELSE "PROCESSING"]_smvars

\* C15 witness: the machine has just entered SHOWING_RESULTS from PROCESSING
\* with the flag set.
C15_Witness ==
    /\ current_state = "SHOWING_RESULTS"
    /\ previous_state = "PROCESSING"
    /\ ret = Return("transition_to", TRUE)
    /\ state_data.processing_complete = Some(TRUE)
    /\ time_in_state = 0

\* C16: transition_to(IDLE) called in ERROR succeeds exactly when
\* error_resolved is true in the store, and a process() call in ERROR never
\* changes the state, whatever the flag and the time spent there.
C16_ErrorNeedsResolution ==
    /\ [][(TransitionTo("IDLE") /\ current_state = "ERROR")
            => /\ ret'.ok <=> (state_data.error_resolved = Some(TRUE))
               /\ current_state' = IF ret'.ok THEN "IDLE" ELSE "ERROR"]_smvars
    /\ [][(Process /\ current_state = "ERROR")
            => /\ current_state' = "ERROR"
               /\ ret' = Return("process", FALSE)]_smvars

\* C16 witness: the machine has just left ERROR for IDLE by a call made with
\* the flag set, and the recovery action has removed the flag.
C16_Witness ==
    /\ current_state = "IDLE"
    /\ previous_state = "ERROR"
    /\ ret = Return("transition_to", TRUE)
    /\ state_data.error_resolved = Absent
    /\ time_in_state = 0

\* C16 witness of the wait: process() has just declined in ERROR with the
\* flag set and the clock at its bound.
C16_WitnessProcess ==
    /\ current_state = "ERROR"
    /\ ret = Return("process", FALSE)
    /\ state_data.error_resolved = Some(TRUE)
    /\ time_in_state >= ResultsTimeout

\* C17: a freshly constructed machine is in INITIALIZING (no previous
\* state, empty history and store), and in SHUTDOWN every transition_to
\* call and every process() call returns false and leaves the state at
\* SHUTDOWN, whatever the store holds.
C17_ShutdownTerminal ==
    /\ current_state = "INITIALIZING"
    /\ previous_state = "None"
    /\ state_history = <<>>
    /\ state_data = EmptyData
    /\ [][(current_state = "SHUTDOWN"
            /\ (Process \/ \E t \in States : TransitionTo(t)))
            => /\ current_state' = "SHUTDOWN"
               /\ ~ret'.ok
               /\ UNCHANGED <<previous_state, state_history>>]_smvars

\* C17 witness: a transition_to call has just failed in SHUTDOWN, entered
\* from IDLE, with both guard flags set in the store.
C17_Witness ==
    /\ current_state = "SHUTDOWN"
    /\ previous_state = "IDLE"
    /\ ret = Return("transition_to", FALSE)
    /\ state_data.processing_complete = Some(TRUE)
    /\ state_data.error_resolved = Some(TRUE)

\* C18: force_state(target, reason) puts the machine in target from every
\* current state, edge of the graph or not, guard true or not, and appends
\* exactly one history record, which carries forced = true, the given
\* reason, the state left and the target.
C18_ForceStateBypassesGraph ==
    [][\A t \in States, reason \in Reasons :
          ForceState(t, reason)
          => /\ current_state' = t
             /\ previous_state' = current_state
             /\ state_history' =
                    Append(state_history,
                           [from_state |-> current_state, to_state |-> t,
                            forced |-> TRUE, reason |-> reason])
             /\ UNCHANGED state_data]_smvars

\* C18 witness: the machine was forced out of SHUTDOWN, which no edge
\* leaves, into EXAMINING, whose guard is false on the empty store.
C18_Witness ==
    /\ current_state = "EXAMINING"
    /\ previous_state = "SHUTDOWN"
    /\ state_data = EmptyData
    /\ Len(state_history) >= 2
    /\ state_history[Len(state_history)] =
            [from_state |-> "SHUTDOWN", to_state |-> "EXAMINING",
             forced |-> TRUE, reason |-> "watchdog"]

\* The latest make_decision call had these arguments.
Called(heart_result, lung_result, sensor_data) ==
    /\ decision # Absent
    /\ decision[1].heart_result = heart_result
    /\ decision[1].lung_result = lung_result
    /\ decision[1].sensor_data = sensor_data

\* The overall score of the latest decision equals thousandths / 1000.
RiskScoreIs(thousandths) ==
    decision[1].result.risk_score.num
        = thousandths * decision[1].result.risk_score.den

\* C19 (scenario A): for an abnormal heart result of confidence 0.9, no lung
\* result and sensor data with a valid 37.0 C, no movement and the distance
\* in range, the decision has heart score 0.72, overall score 0.72, risk
\* level HIGH, requires_referral true and urgency URGENT.
C19_ScenarioA ==
    Called(Some(Result(TRUE, "Murmur", 90)), Absent,
           Some(Vitals(TRUE, 370, FALSE, TRUE)))
        => /\ decision[1].result.risk_scores_breakdown.heart_ml = Some(720)
           /\ RiskScoreIs(720)
           /\ decision[1].result.risk_level = "HIGH"
           /\ decision[1].result.requires_referral
           /\ decision[1].result.urgency = "URGENT"

\* C20 (scenario C): for a lung result "Both" of confidence 0.8, no heart
\* result and a valid temperature of 38.5 C, the decision has lung score
\* 0.72, vital-sign score 0.3, risk level HIGH, urgency URGENT and a fever
\* entry among its risk factors.
C20_ScenarioC ==
    \A detected, in_range \in BOOLEAN :
        Called(Absent, Some(Result(TRUE, "Both", 80)),
               Some(Vitals(TRUE, 385, detected, in_range)))
            => /\ decision[1].result.risk_scores_breakdown.lung_ml = Some(720)
               /\ decision[1].result.risk_scores_breakdown.vital_signs
                    = Some(300)
               /\ decision[1].result.risk_level = "HIGH"
               /\ decision[1].result.urgency = "URGENT"
               /\ \E i \in 1..Len(decision[1].result.risk_factors) :
                    decision[1].result.risk_factors[i] = "Fever detected"

\* C21: a make_decision call whose computation raises returns a decision
\* with risk_level UNKNOWN and requires_referral true (never LOW, never
\* without referral), and a call that returns UNKNOWN is one that raised.
C21_FailedDecisionIsUnknown ==
    decision # Absent =>
        LET raised == raises_TypeError(decision[1].heart_result,
                                       decision[1].lung_result,
                                       decision[1].sensor_data)
        IN  /\ raised => /\ decision[1].result.risk_level = "UNKNOWN"
                         /\ decision[1].result.requires_referral
            /\ (decision[1].result.risk_level = "UNKNOWN") => raised

\* C21 witness: the call had a valid temperature that is no number, beside
\* a normal heart result, and returned the fallback decision.
C21_Witness ==
    /\ decision # Absent
    /\ decision[1].heart_result = Some(Result(TRUE, "Normal", 95))
    /\ decision[1].sensor_data # Absent
    /\ decision[1].sensor_data[1].temperature =
            [valid |-> TRUE, celsius |-> Malformed]
    /\ decision[1].result.risk_level = "UNKNOWN"

\* The latest make_decision call returned a computed decision.
Decided == decision # Absent /\ decision[1].result.risk_level # "UNKNOWN"

\* The score of a component in the latest decision, 0 when it is not there.
ScoreOf(component) ==
    Get(decision[1].result.risk_scores_breakdown[component], 0)

\* The weight of a component in the latest decision, 0 when it is not there:
\* 0.5 for the two classifier components and 0.2 for the vital signs.
WeightOf(component) ==
    IF decision[1].result.risk_scores_breakdown[component] = Absent THEN 0
    ELSE IF component = "vital_signs" THEN 2 ELSE 5

\* C22: the overall score is the weighted average of the components present
\* divided by the sum of their weights; with only lung_ml present it equals
\* the lung score, and with no component present it is 0.
C22_WeightNormalization ==
    Decided =>
        LET score == decision[1].result.risk_score
            sum == ScoreOf("heart_ml") * WeightOf("heart_ml")
                   + ScoreOf("lung_ml") * WeightOf("lung_ml")
                   + ScoreOf("vital_signs") * WeightOf("vital_signs")
            weight == WeightOf("heart_ml") + WeightOf("lung_ml")
                      + WeightOf("vital_signs")
        IN  /\ score.den > 0
            /\ weight > 0 => score.num * weight = sum * score.den
            /\ weight = 0 => score.num = 0
            /\ (WeightOf("heart_ml") = 0 /\ WeightOf("vital_signs") = 0
                    /\ WeightOf("lung_ml") > 0)
                 => score.num = ScoreOf("lung_ml") * score.den

\* C22 witness: a call with only a lung result ("Both", 0.8) gave the lung
\* score 0.72 as the overall score.
C22_Witness ==
    /\ Called(Absent, Some(Result(TRUE, "Both", 80)), Absent)
    /\ decision[1].result.risk_scores_breakdown.lung_ml = Some(720)
    /\ RiskScoreIs(720)

\* C23 (scenario B): for heart and lung results Normal of confidence 0.95
\* and sensor data with a valid 36.5 C, no movement and the distance in
\* range, both classifier scores are 0.1, the vital-sign score is 0.0, the
\* overall score is below 0.4, the risk level LOW and no referral required.
C23_ScenarioB ==
    Called(Some(Result(TRUE, "Normal", 95)), Some(Result(TRUE, "Normal", 95)),
           Some(Vitals(TRUE, 365, FALSE, TRUE)))
        => /\ decision[1].result.risk_scores_breakdown.heart_ml = Some(100)
           /\ decision[1].result.risk_scores_breakdown.lung_ml = Some(100)
           /\ decision[1].result.risk_scores_breakdown.vital_signs = Some(0)
           /\ decision[1].result.risk_score.num
                < 400 * decision[1].result.risk_score.den
           /\ decision[1].result.risk_level = "LOW"
           /\ ~decision[1].result.requires_referral

\* C23 witness: the call of scenario B was made and returned LOW.
C23_Witness ==
    /\ Called(Some(Result(TRUE, "Normal", 95)),
              Some(Result(TRUE, "Normal", 95)),
              Some(Vitals(TRUE, 365, FALSE, TRUE)))
    /\ decision[1].result.risk_level = "LOW"

\* The risk factors that contain "fever", "both", "multiple" or "urgent"
\* when case is ignored: of the factor texts the engine produces, the fever
\* entry and the lung entry of class "Both".
UrgentFactor(factor) ==
    \/ factor = "Fever detected"
    \/ factor = "Abnormal lung sound detected: Both"

\* C26: urgency is URGENT for HIGH, NON-URGENT for LOW, and for MEDIUM it is
\* URGENT when a collected risk factor contains one of the keywords and
\* ROUTINE otherwise.
C26_UrgencyFunction ==
    Decided =>
        LET result == decision[1].result
            urgent == \E i \in 1..Len(result.risk_factors) :
                        UrgentFactor(result.risk_factors[i])
        IN  result.urgency =
                CASE result.risk_level = "HIGH" -> "URGENT"
                  [] result.risk_level = "LOW" -> "NON-URGENT"
                  [] result.risk_level = "MEDIUM" /\ urgent -> "URGENT"
                  [] OTHER -> "ROUTINE"

\* C26 witness: a MEDIUM decision made URGENT by the fever entry alone.
C26_Witness ==
    /\ Decided
    /\ decision[1].result.risk_level = "MEDIUM"
    /\ decision[1].result.urgency = "URGENT"
    /\ decision[1].lung_result = Absent
    /\ \E i \in 1..Len(decision[1].result.risk_factors) :
            decision[1].result.risk_factors[i] = "Fever detected"

\* C26 witness: a MEDIUM decision with risk factors but none of the
\* keywords is ROUTINE.
C26_WitnessRoutine ==
    /\ Decided
    /\ decision[1].result.risk_level = "MEDIUM"
    /\ decision[1].result.urgency = "ROUTINE"
    /\ decision[1].result.risk_factors # <<>>

\* C27: the explanation starts with the headline of the risk level; then,
\* when there are risk factors, it lists the first five of them (all when
\* there are at most five) in collection order and no other; the
\* per-component scores of every component present come after that.
C27_ExplanationCap ==
    decision # Absent =>
        LET e == decision[1].explanation
            f == decision[1].risk_factors
            n == IF Len(f) > 5 THEN 5 ELSE Len(f)
            factor_lines == {i \in 1..Len(e) : e[i].part = "factor"}
            score_lines == {i \in 1..Len(e) : e[i].part = "score"}
            components == {c \in DOMAIN decision[1].risk_scores :
                            decision[1].risk_scores[c] # Absent}
        IN  /\ e[1].part = "headline"
            /\ e[1].text =
                    CASE decision[1].risk_level = "HIGH" ->
                            "HIGH RISK: Significant abnormalities detected."
                      [] decision[1].risk_level = "MEDIUM" ->
                            "MEDIUM RISK: Some abnormalities detected."
                      [] decision[1].risk_level = "LOW" ->
                            "LOW RISK: No significant abnormalities detected."
            /\ factor_lines = {i + 2 : i \in 1..n}
            /\ \A i \in 1..n : e[i + 2].text = f[i]
            /\ n > 0 => e[2] = Line("heading", "Key findings:", 0)
            /\ \A i \in factor_lines, j \in score_lines : 1 < i /\ i < j
            /\ {e[j].text : j \in score_lines} = components
            /\ \A j \in score_lines :
                    Some(e[j].score) = decision[1].risk_scores[e[j].text]

\* C27 witness: eight risk factors were given, the sixth differs from the
\* first five, and the explanation was produced with a score breakdown.
C27_Witness ==
    /\ decision # Absent
    /\ Len(decision[1].risk_factors) = 8
    /\ \A i \in 1..5 : decision[1].risk_factors[i] = "Fever detected"
    /\ decision[1].risk_factors[6] = "Suboptimal stethoscope placement"
    /\ decision[1].risk_scores.lung_ml # Absent
    /\ Len(decision[1].explanation) > 7

\* C24: the history is append-only. A successful transition_to and every
\* force_state append exactly one record, a failed transition_to appends
\* none, and no operation removes or alters a record: the old history is
\* always a prefix of the new one.
C24_HistoryAppendOnly ==
    [][/\ Len(state_history') >= Len(state_history)
       /\ SubSeq(state_history', 1, Len(state_history)) = state_history
       /\ \A t \in States :
            TransitionTo(t) =>
                Len(state_history') =
                    Len(state_history) + (IF ret'.ok THEN 1 ELSE 0)
       /\ \A t \in States, reason \in Reasons :
            ForceState(t, reason) =>
                Len(state_history') = Len(state_history) + 1]_smvars

\* The display values of a risk level as (servo angle, buzzer frequency,
\* buzzer duration, beep count); a level that is neither LOW nor MEDIUM is
\* displayed as HIGH.
DisplayTable(risk_level) ==
    CASE risk_level = "LOW" -> <<45, 1000, 200, 1>>
      [] risk_level = "MEDIUM" -> <<90, 1500, 300, 2>>
      [] OTHER -> <<135, 2000, 500, 3>>

\* The commands of one kind among those a step sent.
CommandsOf(kind, sent) == SelectSeq(sent, LAMBDA c : c.cmd = kind)

\* C25: the display sequence of a risk level sends the position/indicator
\* command with the servo angle of the table once, then as many buzzer
\* commands with the frequency and duration of the table as the beep count
\* says, and requests the transition to SHOWING_RESULTS only after the last
\* of them: the step that starts the sequence sends the one display command
\* followed by the first beep and leaves beep count - 1 to send, each later
\* step sends one beep and requests nothing, and the request is made by the
\* step that finds none left.
C25_DisplaySequence ==
    [][\A k \in DOMAIN tasks :
        /\ (SimStep(k) /\ tasks'[k].pc = "beep") =>
                LET t == DisplayTable(tasks'[k].risk)
                    n == Len(emitted')
                IN  /\ n >= 2
                    /\ Len(CommandsOf("display", emitted')) = 1
                    /\ Len(CommandsOf("buzzer", emitted')) = 1
                    /\ emitted'[n - 1].cmd = "display"
                    /\ emitted'[n - 1].servo = t[1]
                    /\ emitted'[n].cmd = "buzzer"
                    /\ emitted'[n].frequency = t[2]
                    /\ emitted'[n].duration = t[3]
                    /\ tasks'[k].beeps_left = t[4] - 1
                    /\ tasks'[k].shown = tasks[k].shown
                    /\ current_state' # "SHOWING_RESULTS"
        /\ (Beep(k) /\ tasks[k].beeps_left > 0) =>
                LET t == DisplayTable(tasks[k].risk)
                IN  /\ Len(emitted') = 1
                    /\ emitted'[1].cmd = "buzzer"
                    /\ emitted'[1].frequency = t[2]
                    /\ emitted'[1].duration = t[3]
                    /\ tasks'[k].beeps_left = tasks[k].beeps_left - 1
                    /\ tasks'[k].pc = "beep"
                    /\ tasks'[k].shown = tasks[k].shown
                    /\ UNCHANGED <<current_state, state_history>>
        /\ (Beep(k) /\ tasks'[k].pc # "beep") =>
                /\ tasks[k].beeps_left = 0
                /\ emitted' = <<>>
                /\ tasks'[k].shown \in {"accepted", "refused"}]_vars

\* C25 witness: a MEDIUM result was displayed: after the second and last
\* beep the transition to SHOWING_RESULTS has been requested.
C25_Witness ==
    \E k \in DOMAIN tasks :
        /\ tasks[k].risk = "MEDIUM"
        /\ tasks[k].pc = "display_wait"
        /\ tasks[k].beeps_left = 0
        /\ tasks[k].shown \in {"accepted", "refused"}

\* C28: a process() call changes the state at most once and only over the
\* timed edge: outside SHOWING_RESULTS, and in SHOWING_RESULTS before 10 s
\* have passed, it leaves current_state, previous_state, the history and
\* the data store as they are; when it does change the state it appends
\* the one record SHOWING_RESULTS -> IDLE.
C28_ProcessFrame ==
    [][Process =>
        /\ (current_state # "SHOWING_RESULTS" \/ time_in_state < 10)
             => /\ UNCHANGED <<current_state, previous_state,
                               state_history, state_data>>
                /\ ~ret'.ok
        /\ \/ UNCHANGED <<current_state, previous_state, state_history>>
           \/ /\ current_state = "SHOWING_RESULTS"
              /\ time_in_state >= 10
              /\ current_state' = "IDLE"
              /\ previous_state' = "SHOWING_RESULTS"
              /\ state_history' =
                    Append(state_history,
                           [from_state |-> "SHOWING_RESULTS",
                            to_state |-> "IDLE", forced |-> FALSE])]_smvars

\* C28 witness: process() was called in ERROR, 10 s after entry and with
\* error_resolved set, and changed nothing.
C28_Witness ==
    /\ current_state = "ERROR"
    /\ time_in_state >= 10
    /\ Get(state_data.error_resolved, FALSE)
    /\ ret = Return("process", FALSE)

\* C28 witness: process() was called in SHOWING_RESULTS before the timeout
\* and changed nothing.
C28_WitnessEarly ==
    /\ current_state = "SHOWING_RESULTS"
    /\ time_in_state > 0
    /\ time_in_state < 10
    /\ ret = Return("process", FALSE)

\* The records the callbacks and the action of the latest call left.
HooksOf(kind) == SelectSeq(hooks_run, LAMBDA h : h.kind = kind)

\* The callbacks and the action that raised among those recorded: a call
\* that made these records is a call in which exactly these raised.
Raised(hooks) == {hooks[i].kind : i \in {j \in 1..Len(hooks) : hooks[j].raised}}

\* C29: in a successful transition_to from s to t the exit callback of s
\* runs first, with current_state still s, the clock not yet reset and the
\* history record not yet appended; the action of the edge, if it has one,
\* runs once after the record is appended, the states are updated and the
\* clock is reset, with current_state t; the entry callback of t runs last,
\* with current_state t; and whatever of these raises, the call returns
\* true with the machine in t, s as previous state, the record appended
\* and the clock reset.
C29_TransitionOrder ==
    [][\A t \in States :
        (/\ TransitionAllowed(Machine, t)
         /\ TransitionToObserved(t, Raised(hooks_run')))
        => LET n == Len(state_history)
               edge == _find_transition(current_state, t)[1]
               last == Len(hooks_run')
               actions == {i \in 1..last : hooks_run'[i].kind = "action"}
               Saw(h, state, previous, records, clock) ==
                    /\ h.seen = state
                    /\ h.previous = previous
                    /\ h.records = records
                    /\ h.clock = clock
           IN  /\ ret' = Return("transition_to", TRUE)
               /\ current_state' = t
               /\ previous_state' = current_state
               /\ time_in_state' = 0
               /\ state_history' =
                    Append(state_history,
                           [from_state |-> current_state, to_state |-> t,
                            forced |-> FALSE])
               /\ hooks_run'[1].kind = "exit"
               /\ hooks_run'[1].name = current_state
               /\ Saw(hooks_run'[1], current_state, previous_state, n,
                      time_in_state)
               /\ actions = (IF edge.action = "None" THEN {} ELSE {2})
               /\ \A i \in actions :
                    /\ hooks_run'[i].name = edge.action
                    /\ Saw(hooks_run'[i], t, current_state, n + 1, 0)
               /\ last = (IF edge.action = "None" THEN 2 ELSE 3)
               /\ hooks_run'[last].kind = "enter"
               /\ hooks_run'[last].name = t
               /\ Saw(hooks_run'[last], t, current_state, n + 1, 0)]_smvars

\* C29 witness: the transition IDLE -> EXAMINING was made some time after
\* IDLE was entered, and its exit callback, its action and its entry
\* callback all raised.
C29_Witness ==
    /\ current_state = "EXAMINING"
    /\ previous_state = "IDLE"
    /\ ret = Return("transition_to", TRUE)
    /\ Len(hooks_run) = 3
    /\ hooks_run[1].clock > 0
    /\ \A i \in 1..3 : hooks_run[i].raised

\* C30: the record start_examination stored under current_examination stays
\* as it is until the device is back in IDLE: no step that starts and ends
\* outside IDLE removes or changes it.
C30_ExaminationRecordStable ==
    [][(/\ state_data.current_examination # Absent
        /\ current_state # "IDLE"
        /\ current_state' # "IDLE")
        => state_data'.current_examination
                = state_data.current_examination]_vars

\* C31: a computed decision is HIGH exactly when its score is at least 0.7,
\* MEDIUM exactly when it is at least 0.4 and below 0.7, LOW otherwise, and
\* it requires referral exactly when it is MEDIUM or HIGH, that is when the
\* score is at least 0.4.
C31_RiskLevelThresholds ==
    Decided =>
        LET result == decision[1].result
            num == result.risk_score.num
            den == result.risk_score.den
        IN  /\ den > 0
            /\ (result.risk_level = "HIGH") <=> (num >= 700 * den)
            /\ (result.risk_level = "MEDIUM")
                    <=> (num >= 400 * den /\ num < 700 * den)
            /\ (result.risk_level = "LOW") <=> (num < 400 * den)
            /\ result.requires_referral
                    <=> (result.risk_level \in {"MEDIUM", "HIGH"})
            /\ result.requires_referral <=> (num >= 400 * den)

\* C31 witness: a wheeze of confidence 1.0 alone scores exactly 0.7 and
\* is HIGH.
C31_Witness ==
    /\ Called(Absent, Some(Result(TRUE, "Wheeze", 100)), Absent)
    /\ RiskScoreIs(700)
    /\ decision[1].result.risk_level = "HIGH"

\* C31 witness: a murmur of confidence 0.5 alone scores exactly 0.4 and is
\* MEDIUM with referral.
C31_WitnessMedium ==
    /\ Called(Some(Result(TRUE, "Murmur", 50)), Absent, Absent)
    /\ RiskScoreIs(400)
    /\ decision[1].result.risk_level = "MEDIUM"
    /\ decision[1].result.requires_referral

\* The fields of a decision that give the assessment, as against the texts
\* that explain it.
Assessment(result) ==
    [vital_signs       |-> result.risk_scores_breakdown.vital_signs,
     risk_score        |-> result.risk_score,
     risk_level        |-> result.risk_level,
     requires_referral |-> result.requires_referral,
     urgency           |-> result.urgency]

\* C32: a call with the same arguments but other values of
\* movement.detected and distance.in_range gives the same vital-sign
\* score, overall score, risk level, referral flag and urgency.
C32_MovementDistanceExplainOnly ==
    (Decided /\ decision[1].sensor_data # Absent) =>
        \A detected, in_range \in BOOLEAN :
            LET sensor_data == decision[1].sensor_data[1]
                other == make_decision(
                            decision[1].heart_result,
                            decision[1].lung_result,
                            Some(Vitals(sensor_data.temperature.valid,
                                        sensor_data.temperature.celsius,
                                        detected, in_range)))
            IN  Assessment(other) = Assessment(decision[1].result)

\* C32 witness: a MEDIUM decision made with movement detected and the
\* distance out of range, both of which are among its risk factors.
C32_Witness ==
    /\ Decided
    /\ decision[1].sensor_data # Absent
    /\ decision[1].sensor_data[1].movement.detected
    /\ ~decision[1].sensor_data[1].distance.in_range
    /\ decision[1].result.risk_level = "MEDIUM"
    /\ decision[1].result.urgency = "ROUTINE"
    /\ \E i \in 1..Len(decision[1].result.risk_factors) :
            decision[1].result.risk_factors[i]
                = "Patient movement detected during examination"
    /\ \E i \in 1..Len(decision[1].result.risk_factors) :
            decision[1].result.risk_factors[i]
                = "Suboptimal stethoscope placement"

\* C39: the score of a heart or lung component whose label is abnormal is
\* at least 0.1, the score of a confident Normal label, whatever the
\* confidence.
C39_AbnormalAtLeastNormal ==
    Decided =>
        /\ (/\ decision[1].heart_result # Absent
            /\ decision[1].heart_result[1].success
            /\ decision[1].heart_result[1].predicted_class # "Normal")
            => decision[1].result.risk_scores_breakdown.heart_ml[1] >= 100
        /\ (/\ decision[1].lung_result # Absent
            /\ decision[1].lung_result[1].success
            /\ decision[1].lung_result[1].predicted_class # "Normal")
            => decision[1].result.risk_scores_breakdown.lung_ml[1] >= 100

\* The decision fields that C40 compares.
Outcome(result) ==
    IF result.risk_level = "UNKNOWN"
    THEN [risk_level |-> result.risk_level,
          requires_referral |-> result.requires_referral]
    ELSE [risk_level            |-> result.risk_level,
          requires_referral     |-> result.requires_referral,
          risk_score            |-> result.risk_score,
          risk_scores_breakdown |-> result.risk_scores_breakdown,
          risk_factors          |-> result.risk_factors,
          recommendations       |-> result.recommendations,
          urgency               |-> result.urgency,
          confidence            |-> result.confidence]

\* A classifier result that is there but did not succeed.
Failed(result) == result # Absent /\ ~result[1].success

\* C40: a classifier result whose success flag is false counts as no
\* result: the call returns what it returns with None in its place (score,
\* level, referral flag, urgency, confidence, and no component score, risk
\* factor or recommendation of that modality).
C40_FailedResultIsAbsent ==
    decision # Absent =>
        LET heart_result == decision[1].heart_result
            lung_result  == decision[1].lung_result
            sensor_data  == decision[1].sensor_data
        IN  /\ Failed(heart_result) =>
                /\ Outcome(decision[1].result)
                    = Outcome(make_decision(Absent, lung_result, sensor_data))
                /\ Decided =>
                    decision[1].result.risk_scores_breakdown.heart_ml = Absent
            /\ Failed(lung_result) =>
                /\ Outcome(decision[1].result)
                    = Outcome(make_decision(heart_result, Absent, sensor_data))
                /\ Decided =>
                    decision[1].result.risk_scores_breakdown.lung_ml = Absent

\* C40 witness: a failed heart result labelled abnormal, with a confidence
\* that is no number, beside a normal lung result gave a LOW decision with
\* the lung component alone.
C40_Witness ==
    /\ Called(Some(Result(FALSE, "Murmur", Malformed)),
              Some(Result(TRUE, "Normal", 95)), Absent)
    /\ decision[1].result.risk_level = "LOW"
    /\ decision[1].result.risk_scores_breakdown.heart_ml = Absent
    /\ decision[1].result.risk_factors = <<>>
    /\ decision[1].result.confidence = [radicand |-> 0, base |-> 200]

\* C37: on a machine that was never reset the history is a chain that
\* agrees with the state: the first record starts in INITIALIZING, every
\* record starts where the one before ended, the last record ends in
\* current_state and starts in previous_state, and every record that is
\* not forced is an edge of the declared graph.
C37_HistoryChain ==
    LET n == Len(state_history)
    IN  /\ n > 0 =>
            /\ state_history[1].from_state = "INITIALIZING"
            /\ state_history[n].to_state = current_state
            /\ state_history[n].from_state = previous_state
        /\ \A i \in 2..n :
                state_history[i].from_state = state_history[i - 1].to_state
        /\ \A i \in 1..n :
                ~state_history[i].forced =>
                    <<state_history[i].from_state, state_history[i].to_state>>
                        \in DeclaredGraph

\* C35: when initialize() has returned success the machine is in IDLE (so
\* that start_examination can succeed as the next call).
C35_InitializedIsIdle ==
    ret = Return("initialize", TRUE) => current_state = "IDLE"

\* C36: when the risk level of the stored results is neither LOW nor MEDIUM
\* (UNKNOWN in particular), the display command sent for them has the servo
\* at 135, the LED blinking and the relay ON, and the beeps are those of
\* HIGH (2000 Hz, 500 ms).
C36_UnknownDisplayedAsHigh ==
    \A i \in 1..Len(emitted) :
        (/\ emitted[i].cmd = "display"
         /\ state_data.examination_results # Absent
         /\ state_data.examination_results[1].risk_level
                \notin {"LOW", "MEDIUM"})
        => /\ emitted[i].servo = 135
           /\ emitted[i].led = "BLINK"
           /\ emitted[i].relay = "ON"
           /\ i < Len(emitted)
           /\ emitted[i + 1].cmd = "buzzer"
           /\ emitted[i + 1].frequency = 2000
           /\ emitted[i + 1].duration = 500

\* C38: every successful transition IDLE -> EXAMINING leaves the store
\* without processing_complete and without examination_results, whatever
\* an earlier examination left there, so the guard of PROCESSING ->
\* SHOWING_RESULTS is false after it; and the guard becomes true only by
\* a write of processing_complete.
C38_StartClearsResults ==
    [][/\ (TransitionTo("EXAMINING") /\ current_state = "IDLE" /\ ret'.ok)
            => /\ state_data'.processing_complete = Absent
               /\ state_data'.examination_results = Absent
               /\ ~_processing_complete(state_data')
       /\ (~_processing_complete(state_data)
                /\ _processing_complete(state_data'))
            => /\ state_data' =
                    set_data(state_data, "processing_complete", TRUE)
               /\ UNCHANGED current_state]_smvars

\* C38 witness: a second examination has started after a first one was
\* cancelled, and the store holds neither the flag nor results.
C38_Witness ==
    /\ current_state = "EXAMINING"
    /\ previous_state = "IDLE"
    /\ ret = Return("transition_to", TRUE)
    /\ Len(state_history) = 4
    /\ state_history[2].to_state = "EXAMINING"
    /\ state_history[3].to_state = "IDLE"
    /\ state_data.processing_complete = Absent
    /\ state_data.examination_results = Absent

\* C33: the result-display commands of the processing sequence (the display
\* command and every beep) are sent only by a step that leaves the machine
\* in PROCESSING, the state the sequence enters by EXAMINING -> PROCESSING.
C33_ProcessingEffectsOnlyInProcessing ==
    \A i \in 1..Len(emitted) :
        emitted[i].cmd \in {"display", "buzzer"}
        => current_state = "PROCESSING"

\* C34: whenever start_examination has just reported success and left the
\* machine in EXAMINING, a capture is running (the one whose completion
\* takes the machine out of EXAMINING with no call of stop_examination).
C34_StartedExaminationHasCapture ==
    (ret = Return("start_examination", TRUE) /\ current_state = "EXAMINING")
        => capturing

====
